---------------------------- MODULE Spec2Model ----------------------------
(***************************************************************************)
(* Model of the cuttlefish shared-memory transport:                        *)
(*   - the region layout planner  (common/vsoc/lib/vsoc_memory.cpp)        *)
(*   - the socket-forward proxy   (common/frontend/socket_forward_proxy/   *)
(*                                 main.cpp)                               *)
(*                                                                         *)
(* uint32_t arithmetic is modelled modulo 2^UintBits and the page size is  *)
(* 2^PageShift: the widths are scaled down (the program has 32 and the     *)
(* value of sysconf(_SC_PAGESIZE)), the wrap-around behaviour is kept.     *)
(* size_t values (64 bit) never wrap in the ranges used here and are       *)
(* plain naturals.  Region indices are 0-based as in the source.           *)
(***************************************************************************)
EXTENDS Integers, Sequences, FiniteSets, TLC

---------------------------------------------------------------------------
(* Bounds of the model *)

UintBits == 12
PageShift == 6
MaxRegions == 3
MaxReqPages == 1
MaxClients == 2
MaxBytes == 2
PacketCapacity == 2
QueueCap == 1
MaxFaults == 1
MaxPairFaults == 1
MaxTornClients == 1
MaxPorts == 2
MaxLateResizes == 1

---------------------------------------------------------------------------
(* Machine arithmetic *)

UINT32_MOD == 2 ^ UintBits
PageSize == 2 ^ PageShift

\* conversion of a wider value to uint32_t
ToUint32(v) == v % UINT32_MOD

\* sizeof(uint32_t)
SizeofUint32 == 4

\* sizeof(vsoc_shm_layout_descriptor), sizeof(vsoc_device_region): the structs
\* of uapi/vsoc_shm.h, sized from the field lists of the wire format
SizeofLayoutDescriptor == 16
SizeofDeviceRegion == 60

\* a null const char*
NULL == "nullptr"

\* the value standing for a call that never returns
NoReturn == -1

\* mutant: the sum is not rounded down to a page multiple
AlignToPageSize_NoRound(val) ==
  ToUint32(ToUint32(val) + (PageSize - 1))

AlignToPageSize(val) ==
  (ToUint32(ToUint32(val) + (PageSize - 1)) \div PageSize) * PageSize

\* the while loop of AlignToPowerOf2; a loop state that repeats (power_of_2
\* wrapped to 0) means the loop spins forever
RECURSIVE AlignLoop(_, _, _)
AlignLoop(power_of_2, val, seen) ==
  IF power_of_2 < val
  THEN IF power_of_2 \in seen
       THEN NoReturn
       ELSE AlignLoop(ToUint32(power_of_2 * 2), val, seen \cup {power_of_2})
  ELSE power_of_2

AlignToPowerOf2(val) == AlignLoop(1, ToUint32(val), {})

---------------------------------------------------------------------------
(* VSoCRegionLayoutImpl *)

GetOffsetOfRegionData(region) ==
  LET o1 == ToUint32(0 + (2 ^ region.g2h_log_size) * SizeofUint32)
      o2 == ToUint32(o1 + (2 ^ region.h2g_log_size) * SizeofUint32)
  IN  ToUint32(o2 + 2 * SizeofUint32)

\* mutant: the data section is left out
GetMinRegionSize_NoPayload(region) ==
  AlignToPageSize(GetOffsetOfRegionData(region))

GetMinRegionSize(region) ==
  AlignToPageSize(ToUint32(GetOffsetOfRegionData(region) + region.layout_size))

\* the constructor: size_ = GetMinRegionSize(), begin_offset_{} = 0
VSoCRegionLayoutImpl(region_name, layout_size, g2h, h2g, managed_by) ==
  LET r == [region_name |-> region_name, layout_size |-> layout_size,
            g2h_log_size |-> g2h, h2g_log_size |-> h2g,
            managed_by |-> managed_by, begin_offset |-> 0, size |-> 0]
  IN  [r EXCEPT !.size = GetMinRegionSize(r)]

NumRegions(regions) == Cardinality(DOMAIN regions)

---------------------------------------------------------------------------
(* VSoCMemoryLayoutImpl *)

\* std::map<const char*, size_t>: keys are compared as pointers.
\* Returns [fatal, map]; fatal when a name is used twice (LOG(FATAL)).
RECURSIVE NameToIndexLoop(_, _, _)
NameToIndexLoop(regions, index, result) ==
  IF index >= NumRegions(regions)
  THEN [fatal |-> FALSE, map |-> result]
  ELSE LET region_name == regions[index].region_name
       IN  IF region_name \in DOMAIN result
           THEN [fatal |-> TRUE, map |-> result]
           ELSE NameToIndexLoop(regions, index + 1,
                  [n \in DOMAIN result \cup {region_name} |->
                     IF n = region_name THEN index ELSE result[n]])

GetNameToIndexMap(regions) ==
  NameToIndexLoop(regions, 0, [n \in {} |-> 0])

\* the managed_by check of the constructor: fatal when some manager name is
\* not a key of the (complete) name-to-index map
UnknownManager(regions, idx_by_name) ==
  \E i \in DOMAIN regions :
     /\ regions[i].managed_by # NULL
     /\ regions[i].managed_by \notin DOMAIN idx_by_name

\* Sets begin_offset of the regions from index on; returns the regions and
\* the device size (NoReturn when AlignToPowerOf2 spins).
RECURSIVE UpdateOffsetsLoop(_, _, _)
UpdateOffsetsLoop(regions, offset, index) ==
  IF index < NumRegions(regions)
  THEN UpdateOffsetsLoop(
         [regions EXCEPT ![index].begin_offset = offset],
         ToUint32(offset + regions[index].size),
         index + 1)
  ELSE [regions |-> regions, device_size |-> AlignToPowerOf2(offset)]

\* mutant: the index is ignored, every region is moved
UpdateRegionOffsetsAndDeviceSize_FromZero(regions, offset, index) ==
  UpdateOffsetsLoop(regions, ToUint32(offset), 0)

UpdateRegionOffsetsAndDeviceSize(regions, offset, index) ==
  UpdateOffsetsLoop(regions, ToUint32(offset), index)

\* mutant: no space is reserved for the region descriptors
HeaderOffset_NoDescriptors(regions) ==
  AlignToPageSize(ToUint32(0 + SizeofLayoutDescriptor))

\* offset reserved for the global header and the region descriptors
HeaderOffset(regions) ==
  LET o1 == ToUint32(0 + SizeofLayoutDescriptor)
      o2 == ToUint32(o1 + NumRegions(regions) * SizeofDeviceRegion)
  IN  AlignToPageSize(o2)

\* The constructor.  outcome: "ok", "fatal" (LOG(FATAL)) or "noreturn" (the
\* AlignToPowerOf2 loop spins); with "noreturn" device_size_ was not assigned.
VSoCMemoryLayoutImpl(regions) ==
  LET m == GetNameToIndexMap(regions)
  IN  IF m.fatal \/ UnknownManager(regions, m.map)
      THEN [outcome |-> "fatal", regions |-> regions, map |-> m.map,
            device_size |-> 0]
      ELSE LET u == UpdateRegionOffsetsAndDeviceSize(
                      regions, HeaderOffset(regions), 0)
           IN  [outcome |-> IF u.device_size = NoReturn
                            THEN "noreturn" ELSE "ok",
                regions |-> u.regions, map |-> m.map,
                device_size |-> IF u.device_size = NoReturn
                                THEN 0 ELSE u.device_size]

\* mutant: the region's size is set before the size is checked
ResizeRegion_EarlySet(regions, idx_by_name, device_size, region_name, new_min_size) ==
  IF region_name \notin DOMAIN idx_by_name
  THEN [ret |-> "false", index |-> 0 - 1, regions |-> regions,
        device_size |-> device_size]
  ELSE LET index == idx_by_name[region_name]
           min_required_size == GetMinRegionSize(regions[index])
           aligned == AlignToPageSize(new_min_size)
           resized == [regions EXCEPT ![index].size = aligned]
       IN  IF aligned < min_required_size
           THEN [ret |-> "false", index |-> index, regions |-> resized,
                 device_size |-> device_size]
           ELSE LET offset == resized[index].begin_offset + resized[index].size
                    u == UpdateRegionOffsetsAndDeviceSize(
                           resized, offset, index + 1)
                IN  [ret |-> IF u.device_size = NoReturn
                             THEN "noreturn" ELSE "true",
                     index |-> index, regions |-> u.regions,
                     device_size |-> IF u.device_size = NoReturn
                                     THEN device_size ELSE u.device_size]

\* ResizeRegion.  ret: "false", "true" or "noreturn".
ResizeRegion(regions, idx_by_name, device_size, region_name, new_min_size) ==
  IF region_name \notin DOMAIN idx_by_name
  THEN [ret |-> "false", index |-> 0 - 1, regions |-> regions,
        device_size |-> device_size]
  ELSE LET index == idx_by_name[region_name]
           min_required_size == GetMinRegionSize(regions[index])
           aligned == AlignToPageSize(new_min_size)
       IN  IF aligned < min_required_size
           THEN [ret |-> "false", index |-> index, regions |-> regions,
                 device_size |-> device_size]
           ELSE LET resized == [regions EXCEPT ![index].size = aligned]
                    offset == resized[index].begin_offset + resized[index].size
                    u == UpdateRegionOffsetsAndDeviceSize(
                           resized, offset, index + 1)
                IN  [ret |-> IF u.device_size = NoReturn
                             THEN "noreturn" ELSE "true",
                     index |-> index, regions |-> u.regions,
                     device_size |-> IF u.device_size = NoReturn
                                     THEN device_size ELSE u.device_size]

---------------------------------------------------------------------------
(* The inputs of the layout planner *)

\* the managed_by value of a region without a manager (uapi/vsoc_shm.h)
VSOC_REGION_WHOLE == 0

\* mutant: the manager's index is written whatever it is
ManagedByLink_Unchecked(regions, idx_by_name, idx) ==
  IF regions[idx].managed_by # NULL
  THEN [fatal |-> FALSE, managed_by |-> idx_by_name[regions[idx].managed_by]]
  ELSE [fatal |-> FALSE, managed_by |-> VSOC_REGION_WHOLE]

\* WriteLayout, "Handle managed_by links": the managed_by field of the
\* description of regions_[idx], or the fatal error
ManagedByLink(regions, idx_by_name, idx) ==
  IF regions[idx].managed_by # NULL
  THEN LET manager_idx == idx_by_name[regions[idx].managed_by]
       IN  [fatal |-> manager_idx = VSOC_REGION_WHOLE, managed_by |-> manager_idx]
  ELSE [fatal |-> FALSE, managed_by |-> VSOC_REGION_WHOLE]

\* static_assert(CURRENT_VSOC_LAYOUT_MAJOR_VERSION == 2)
CURRENT_VSOC_LAYOUT_MAJOR_VERSION == 2

\* WriteLayout, "Device header"
WriteHeader(regions, device_size) ==
  [major_version |-> CURRENT_VSOC_LAYOUT_MAJOR_VERSION,
   size |-> device_size,
   region_count |-> ToUint32(NumRegions(regions)),
   vsoc_region_desc_offset |-> SizeofLayoutDescriptor]

\* WriteSignalTableDescription: the vsoc_signal_table_layout it writes
SignalTableLayout(offset, log_size) ==
  [num_nodes_lg2 |-> log_size,
   futex_uaddr_table_offset |-> offset,
   interrupt_signalled_offset |->
     ToUint32(offset + (2 ^ log_size) * SizeofUint32)]

\* WriteSignalTableDescription: the offset after the table and its
\* interrupt signalled word
WriteSignalTableDescription(offset, log_size) ==
  ToUint32(ToUint32(offset + (2 ^ log_size) * SizeofUint32) + SizeofUint32)

\* the characters a region name points to: the layout type behind "c" is
\* declared with the same name string as the one behind "a", and the build
\* keeps the two string literals at different addresses (with the literals
\* merged the two names are the one pointer "a")
NameAt(region_name) == IF region_name = "c" THEN "a" ELSE region_name

\* WriteRegionDescription: the fields of vsoc_device_region but managed_by;
\* strncpy copies the characters of the name
WriteRegionDescription(region) ==
  [device_name |-> NameAt(region.region_name),
   region_begin_offset |-> region.begin_offset,
   region_end_offset |-> ToUint32(region.begin_offset + region.size),
   offset_of_region_data |-> GetOffsetOfRegionData(region),
   guest_to_host_signal_table |-> SignalTableLayout(0, region.g2h_log_size),
   host_to_guest_signal_table |->
     SignalTableLayout(WriteSignalTableDescription(0, region.g2h_log_size),
                       region.h2g_log_size),
   managed_by |-> VSOC_REGION_WHOLE]

\* WriteRegionDescription, the LOG(FATAL): the signal tables reach into the
\* region's data
MetadataCollides(region) ==
  WriteSignalTableDescription(
    WriteSignalTableDescription(0, region.g2h_log_size),
    region.h2g_log_size) > GetOffsetOfRegionData(region)

\* WriteLayout: the loop over regions_; the descriptions written so far stay
\* in the table when the loop ends in the fatal error
RECURSIVE WriteLayoutLoop(_, _, _, _)
WriteLayoutLoop(regions, idx_by_name, idx, region_descriptions) ==
  IF idx >= NumRegions(regions)
  THEN [fatal |-> FALSE, region_descriptions |-> region_descriptions]
  ELSE LET link == ManagedByLink(regions, idx_by_name, idx)
           shmem_region_desc == WriteRegionDescription(regions[idx])
       IN  IF MetadataCollides(regions[idx]) \/ link.fatal
           THEN [fatal |-> TRUE, region_descriptions |-> region_descriptions]
           ELSE WriteLayoutLoop(regions, idx_by_name, idx + 1,
                  [i \in DOMAIN region_descriptions \cup {idx} |->
                     IF i = idx
                     THEN [shmem_region_desc EXCEPT !.managed_by = link.managed_by]
                     ELSE region_descriptions[i]])

\* region names as const char* values; UnknownName is a pointer that is the
\* name of no declared region
RegionNames == {"a", "b", "c"}
UnknownName == "z"

\* sizeof(R) and the two signal table log sizes of the layout type behind a
\* region name (ValidateAndBuildLayout<R>(g2h, h2g))
LayoutOf(region_name) ==
  CASE region_name = "a" -> [layout_size |-> 0, g2h |-> 0, h2g |-> 0]
    [] region_name = "b" -> [layout_size |-> PageSize + 36, g2h |-> 1, h2g |-> 1]
    [] OTHER             -> [layout_size |-> 40, g2h |-> 2, h2g |-> 0]

ValidateAndBuildLayout(region_name, managed_by) ==
  VSoCRegionLayoutImpl(region_name, LayoutOf(region_name).layout_size,
                       LayoutOf(region_name).g2h, LayoutOf(region_name).h2g,
                       managed_by)

\* the managed_by values tried: unmanaged, managed by region "a" (declared
\* earlier, later, or the region itself), managed by an undeclared name
Managers == {NULL, "a", UnknownName}

\* the region lists handed to the constructor: up to MaxRegions regions, at
\* most one of them managed (as in VSoCMemoryLayout::Get)
RegionLists ==
  UNION { { l \in [0 .. (n - 1) ->
                    { ValidateAndBuildLayout(nm, mg) :
                        nm \in RegionNames,
                        mg \in Managers }] :
              Cardinality({i \in 0 .. (n - 1) : l[i].managed_by # NULL}) <= 1 }
          : n \in 1 .. MaxRegions }

\* the sizes asked of ResizeRegion (size_t): around the first page multiples,
\* around half and the whole of the uint32_t range, and beyond it
ResizeRequests ==
  { k * PageSize + d : k \in 0 .. MaxReqPages, d \in {0, 1} }
    \cup { k * PageSize - 1 : k \in 1 .. MaxReqPages }
    \cup { UINT32_MOD \div 2, UINT32_MOD - PageSize, UINT32_MOD - 1,
           UINT32_MOD + PageSize + 1 }

---------------------------------------------------------------------------
(* Packets and the channel connection (vsoc::socket_forward) *)

\* Packet::MakeData(): a data packet with payload_length 0
MakeData == [end |-> FALSE, payload |-> <<>>]
\* the end-of-stream packet
MakeEnd == [end |-> TRUE, payload |-> <<>>]
payload_length(packet) == Len(packet.payload)
IsEnd(packet) == packet.end
empty(packet) == ~packet.end /\ payload_length(packet) = 0

\* the two packet queues of a connection: "h2g" is written by the host's
\* Sender and read by the guest's Receiver, "g2h" the other way
SendQueue(side) == IF side = "host" THEN "h2g" ELSE "g2h"
RecvQueue(side) == IF side = "host" THEN "g2h" ELSE "h2g"
OtherSide(side) == IF side = "host" THEN "guest" ELSE "host"

FreeConn == [state |-> "free", port |-> NULL, h2g |-> <<>>, g2h |-> <<>>]

---------------------------------------------------------------------------
(* Sockets *)

HostSockets == { <<"h", i>> : i \in 1 .. MaxClients }
GuestSockets == { <<"g", i>> : i \in 1 .. MaxClients }
SocketIds == HostSockets \cup GuestSockets
ConnIds == 1 .. MaxClients
NoSocket == <<"none", 0>>
NoConn == 0

\* the i-th byte the TCP peer of socket s sends
Byte(s, i) == <<s, i>>
\* the bytes number from+1 .. from+n of the stream arriving on socket s
Chunk(s, from, n) == [i \in 1 .. n |-> Byte(s, from + i)]

UnusedSocket == [state |-> "unused", port |-> NULL, rdpos |-> 0, out |-> <<>>,
                 shut_wr |-> 0]

\* a socket not yet handed out, lowest number first
NextSocket(socks, ids) ==
  LET free == { i \in 1 .. MaxClients :
                  \E s \in ids : s[2] = i /\ socks[s].state = "unused" }
  IN  IF free = {} THEN NoSocket
      ELSE CHOOSE s \in ids :
             /\ socks[s].state = "unused"
             /\ \A i \in free : s[2] <= i

\* cvd::FileInstance::IsOpen
IsOpen(socks, s) == socks[s].state = "open"

---------------------------------------------------------------------------
(* SocketReceiver, SocketSender, SocketToShm, ShmToSocket, LaunchWorkers *)

\* what socket_->Read(payload, sizeof payload) can return on socket s: a
\* part of the bytes not read yet, 0 once the peer has closed its write
\* side, or -1
ReadResults(socks, stream_len, s) ==
  LET left == stream_len[s] - socks[s].rdpos
  IN  (1 .. (IF left < PacketCapacity THEN left ELSE PacketCapacity))
        \cup (IF left = 0 THEN {0} ELSE {})
        \cup {0 - 1}

\* SocketReceiver::Recv: the packet after the read returned size
SocketReceiverRecv(socks, s, size) ==
  LET sz == IF size < 0 THEN 0 ELSE size
  IN  [MakeData EXCEPT !.payload = Chunk(s, socks[s].rdpos, sz)]

\* what socket_->Send(buf, len, MSG_NOSIGNAL) can return
SendResults(len) == (1 .. len) \cup {0, 0 - 1}

\* One turn of the loop of SocketSender::SendAll, the socket's Send having
\* returned just_written.  done: SendAll returns ret; otherwise it loops.
SendAllStep(socks, s, packet, written, just_written) ==
  IF ~IsOpen(socks, s)
  THEN [done |-> TRUE, ret |-> 0 - 1, written |-> written, sent |-> <<>>]
  ELSE IF just_written <= 0
  THEN [done |-> TRUE, ret |-> just_written, written |-> written,
        sent |-> <<>>]
  ELSE LET w == written + just_written
       IN  [done |-> ~(w < payload_length(packet)), ret |-> w,
            written |-> w,
            sent |-> SubSeq(packet.payload, written + 1, w)]

\* ShmToSocket's test of what SendAll returned: TRUE breaks the loop
SendAllFailed(ret) == ret < 0

\* mutant: the loop does not test the packet it received
SocketClosed_Untested(packet) == FALSE

\* SocketToShm's test of the packet received from the socket
SocketClosed(packet) == empty(packet)

\* the socket_ of a SocketSender that was moved from: the SharedFD's
\* pointer went to the new object and the old one holds none
MovedFrom(socket_) == NoSocket

\* mutant: the destructor does not test whether socket_ was moved from
DestroySocketSender_Unchecked(socket_) == 1

\* ~SocketSender(): how many Shutdown(SHUT_WR) calls it makes
DestroySocketSender(socket_) == IF socket_ # NoSocket THEN 1 ELSE 0

\* LaunchWorkers: the Shutdown(SHUT_WR) calls made while the thread is
\* started, by the destruction of the temporary SocketSender{socket} and of
\* the thread's own copy of it, both moved from
LaunchShutdowns(socket) ==
  DestroySocketSender(MovedFrom(socket)) + DestroySocketSender(MovedFrom(socket))

\* a forwarding thread
Worker(kind, side, conn, socket) ==
  [kind |-> kind, side |-> side, conn |-> conn, sock |-> socket,
   pc |-> "recv", packet |-> MakeData, written |-> 0, why |-> "running",
   got |-> "none"]

\* mutant: only the thread from the socket to the shared memory is started
LaunchWorkers_OneWay(side, conn, socket) ==
  << Worker("SocketToShm", side, conn, socket) >>

\* mutant: every ShmToSocket thread receives from the first connection
LaunchWorkers_FirstConn(side, conn, socket) ==
  << Worker("SocketToShm", side, conn, socket),
     Worker("ShmToSocket", side, 1, socket) >>

\* LaunchWorkers(conn, socket): the two detached threads it starts
LaunchWorkers(side, conn, socket) ==
  << Worker("SocketToShm", side, conn, socket),
     Worker("ShmToSocket", side, conn, socket) >>

---------------------------------------------------------------------------
(* State *)

VARIABLES
  phase,                \* "unconstructed", "ready", "fatal", "noreturn", "rebuilt"
  decl,                 \* the region list given to the constructor
  regions_,             \* VSoCMemoryLayoutImpl::regions_
  region_idx_by_name_,  \* VSoCMemoryLayoutImpl::region_idx_by_name_
  device_size_,         \* VSoCMemoryLayoutImpl::device_size_
  call,                 \* the last call made and what it returned
  shared_memory,        \* the region descriptions WriteLayout wrote
  header,               \* the vsoc_shm_layout_descriptor WriteLayout wrote
  late_resizes,         \* the ResizeRegion calls that changed the layout since
                        \* the last WriteLayout (at most MaxLateResizes)
  built                 \* what each run of the constructor on decl produced

layoutVars == <<phase, decl, regions_, region_idx_by_name_, device_size_, call, shared_memory, header, late_resizes, built>>

VARIABLES
  ports,        \* the host's port pairs (ParsePortsList)
  clients,      \* how many TCP clients connect to the host in this run
  stream_len,   \* per socket: how many bytes its TCP peer sends before closing
  sockets,      \* the TCP sockets
  chan,         \* the connections of the shared region channel
  torn,         \* the shared segment is gone
  faults,       \* how many more failures the environment may cause in this run
  hostLoop,     \* per port pair: the accept loop of host_impl
  guestLoop,    \* the accept loop of guest
  tasks,        \* the forwarding threads, in launch order
  pairs,        \* the LaunchWorkers calls made: side, connection, socket
  main          \* per side: where main() of the side's process is

proxyVars == <<ports, clients, stream_len, sockets, chan, torn, faults, hostLoop, guestLoop,
               tasks, pairs, main>>

vars == <<layoutVars, proxyVars>>

\* the shared memory before WriteLayout
NoHeader ==
  [major_version |-> 0, size |-> 0, region_count |-> 0, vsoc_region_desc_offset |-> 0]

NoCall == [op |-> "none", name |-> NULL, req |-> 0, ret |-> "none", index |-> 0 - 1]

LayoutInit ==
  /\ phase = "unconstructed"
  /\ decl \in RegionLists
  /\ regions_ = [i \in {} |-> 0]
  /\ region_idx_by_name_ = [n \in {} |-> 0]
  /\ device_size_ = 0
  /\ call = NoCall
  /\ shared_memory = [i \in {} |-> 0]
  /\ header = NoHeader
  /\ late_resizes = 0
  /\ built = <<>>

\* the layout in memory is the one WriteLayout wrote
SameAsWritten ==
  /\ header = WriteHeader(regions_, device_size_)
  /\ \A i \in DOMAIN shared_memory :
       /\ shared_memory[i].region_begin_offset = regions_[i].begin_offset
       /\ shared_memory[i].region_end_offset
            = ToUint32(regions_[i].begin_offset + regions_[i].size)

Construct ==
  /\ phase = "unconstructed"
  /\ LET r == VSoCMemoryLayoutImpl(decl)
     IN  /\ phase' = IF r.outcome = "ok" THEN "ready" ELSE r.outcome
         /\ regions_' = r.regions
         /\ region_idx_by_name_' = r.map
         /\ device_size_' = r.device_size
         /\ call' = [NoCall EXCEPT !.op = "construct", !.ret = r.outcome]
         /\ built' = Append(built, r)
  /\ UNCHANGED <<decl, shared_memory, header, late_resizes, proxyVars>>

\* mutant: the second construction starts from the regions as they are now
ConstructAgain_FromCurrent ==
  /\ phase = "ready"
  /\ phase' = "rebuilt"
  /\ built' = Append(built, VSoCMemoryLayoutImpl(regions_))
  /\ call' = [NoCall EXCEPT !.op = "construct", !.ret = VSoCMemoryLayoutImpl(regions_).outcome]
  /\ UNCHANGED <<decl, regions_, region_idx_by_name_, device_size_, shared_memory, header, late_resizes, proxyVars>>

\* the constructor run once more on the same list (another process's
\* VSoCMemoryLayout::Get); the run is followed no further
ConstructAgain ==
  /\ phase = "ready"
  /\ phase' = "rebuilt"
  /\ built' = Append(built, VSoCMemoryLayoutImpl(decl))
  /\ call' = [NoCall EXCEPT !.op = "construct", !.ret = VSoCMemoryLayoutImpl(decl).outcome]
  /\ UNCHANGED <<decl, regions_, region_idx_by_name_, device_size_, shared_memory, header, late_resizes, proxyVars>>

Resize(region_name, new_min_size) ==
  /\ phase = "ready"
  /\ late_resizes < MaxLateResizes
  /\ LET r == ResizeRegion(regions_, region_idx_by_name_, device_size_,
                           region_name, new_min_size)
     IN  /\ phase' = IF r.ret = "noreturn" THEN "noreturn" ELSE "ready"
         /\ regions_' = r.regions
         /\ device_size_' = r.device_size
         /\ call' = [op |-> "resize", name |-> region_name,
                     req |-> new_min_size, ret |-> r.ret, index |-> r.index]
         /\ late_resizes' = IF header # NoHeader /\ r.regions # regions_
                            THEN late_resizes + 1 ELSE late_resizes
  /\ UNCHANGED <<decl, region_idx_by_name_, shared_memory, header, built, proxyVars>>

\* WriteLayout(shared_memory): the header and one description per region
WriteLayout ==
  /\ phase = "ready"
  /\ LET r == WriteLayoutLoop(regions_, region_idx_by_name_, 0, [i \in {} |-> 0])
     IN  /\ phase' = IF r.fatal THEN "fatal" ELSE "ready"
         /\ shared_memory' = r.region_descriptions
         /\ header' = WriteHeader(regions_, device_size_)
         /\ late_resizes' = 0
         /\ call' = [NoCall EXCEPT !.op = "WriteLayout",
                                   !.ret = IF r.fatal THEN "fatal" ELSE "void"]
  /\ UNCHANGED <<decl, regions_, region_idx_by_name_, device_size_, built, proxyVars>>

LayoutNext ==
  \/ WriteLayout
  \/ ConstructAgain
  \/ Construct
  \/ \E region_name \in RegionNames \cup {UnknownName},
        new_min_size \in ResizeRequests :
       Resize(region_name, new_min_size)

\* the signal table log sizes tried for the descriptions: every size whose
\* table is at most as long as the uint32_t range
MaxLogSize == UintBits - 2

\* lists of one unmanaged region, with any two signal table log sizes
SignalTableLists ==
  { [i \in {0} |-> VSoCRegionLayoutImpl("a", LayoutOf("a").layout_size, g2h, h2g, NULL)] :
      g2h \in 0 .. MaxLogSize, h2g \in 0 .. MaxLogSize }

SignalTableInit ==
  /\ phase = "unconstructed"
  /\ decl \in SignalTableLists
  /\ regions_ = [i \in {} |-> 0]
  /\ region_idx_by_name_ = [n \in {} |-> 0]
  /\ device_size_ = 0
  /\ call = NoCall
  /\ shared_memory = [i \in {} |-> 0]
  /\ header = NoHeader
  /\ late_resizes = 0
  /\ built = <<>>

\* the layout planner at rest (the proxy's specifications)
LayoutIdle ==
  /\ phase = "unconstructed"
  /\ decl = [i \in {} |-> 0]
  /\ regions_ = [i \in {} |-> 0]
  /\ region_idx_by_name_ = [n \in {} |-> 0]
  /\ device_size_ = 0
  /\ call = NoCall
  /\ shared_memory = [i \in {} |-> 0]
  /\ header = NoHeader
  /\ late_resizes = 0
  /\ built = <<>>

---------------------------------------------------------------------------
(* The proxy: inputs and initial state *)

\* the port pairs of --guest_ports / --host_ports
PortPair(i) == [guest_port |-> <<"guest_port", i>>, host_port |-> <<"host_port", i>>]

\* how many bytes arrive on each socket of a run with n clients: at most
\* MaxBytes in all for one client; with more clients one byte from each
\* client and none from the guest's services
Workloads(n) ==
  { w \in [SocketIds -> 0 .. MaxBytes] :
      /\ \A s \in SocketIds : s[2] > n => w[s] = 0
      /\ n = 1 => w[<<"h", 1>>] + w[<<"g", 1>>] <= MaxBytes
      /\ n > 1 => \A s \in SocketIds :
                    s[2] <= n => w[s] = (IF s[1] = "h" THEN 1 ELSE 0) }

\* ParsePortsList of the two flags, zipped: the forwarded ports
Ports == [i \in 1 .. MaxPorts |-> PortPair(i)]

\* the listener a client connects to: the only client of a run to any of
\* them, each of several clients to the listener of its own number
Connects(s, p) == clients = 1 \/ s[2] = p

\* the process of a side has not aborted
Alive(side) ==
  side = "guest" \/ \A q \in DOMAIN hostLoop :
                       hostLoop[q].pc \notin {"aborted", "accept_failed", "bind_failed"}

\* a thread of host_impl: threads counts the threads started for the port
\* pair, servers the listeners bound on its host port
IdleLoop == [pc |-> "accept", client_socket |-> NoSocket, conn |-> NoConn, threads |-> 0, servers |-> 0]

\* host(shm, ports) calls host_impl(shm, ports, 0) on the main thread
StartLoops(n) ==
  [p \in 1 .. n |->
     [IdleLoop EXCEPT !.pc = (IF p = 1 THEN "start" ELSE "off"),
                      !.threads = (IF p = 1 THEN 1 ELSE 0)]]
\* OpenSocketConnection: sleep(1) after an attempt that failed
SleepSeconds == 1

\* reachable: the local service accepts a dial (read while dialing only)
IdleGuest == [pc |-> "accept", conn |-> NoConn, reachable |-> TRUE, sleep |-> 0]

Sides == {"host", "guest"}

\* main() of a process: root is getuid() = 0, shm that GetInstance finds the
\* shared segment, guest_ports and host_ports how many ports the two flags
\* list (0: the flag is empty), cleanups and workers the calls made of
\* CleanUpPreviousConnections and of StartWorker
MainAt(pc, root, shm, guest_ports, host_ports) ==
  [pc |-> pc, root |-> root, shm |-> shm, guest_ports |-> guest_ports,
   host_ports |-> host_ports, cleanups |-> 0, workers |-> 0]

\* the two processes past their setup
MainRunning ==
  [side \in Sides |->
     [MainAt("running", side = "guest", TRUE,
             IF side = "host" THEN MaxPorts ELSE 0,
             IF side = "host" THEN MaxPorts ELSE 0)
        EXCEPT !.cleanups = 1, !.workers = 1]]

\* the two processes not started
MainOff == [side \in Sides |-> MainAt("off", FALSE, FALSE, 0, 0)]

ProxyInitFor(n) ==
  /\ main = MainRunning
  /\ ports = Ports
  /\ clients = n
  /\ faults = (IF n = 1 THEN MaxFaults ELSE MaxPairFaults)
  /\ stream_len \in Workloads(n)
  /\ sockets = [s \in SocketIds |-> UnusedSocket]
  /\ chan = [k \in ConnIds |-> FreeConn]
  /\ torn = FALSE
  /\ hostLoop = StartLoops(Len(ports))
  /\ guestLoop = IdleGuest
  /\ tasks = <<>>
  /\ pairs = {}

\* the proxy not started (the layout planner's specification)
ProxyIdle ==
  /\ main = MainOff
  /\ ports = <<>>
  /\ clients = 0
  /\ faults = 0
  /\ stream_len = [s \in SocketIds |-> 0]
  /\ sockets = [s \in SocketIds |-> UnusedSocket]
  /\ chan = [k \in ConnIds |-> FreeConn]
  /\ torn = FALSE
  /\ hostLoop = <<>>
  /\ guestLoop = [IdleGuest EXCEPT !.pc = "off"]
  /\ tasks = <<>>
  /\ pairs = {}

---------------------------------------------------------------------------
(* main: the setup of a process *)

\* assert_correct_user: CHECK_EQ(getuid(), 0u) on the guest, nothing on the host
assert_correct_user(side) ==
  /\ main[side].pc = "assert_correct_user"
  /\ main' = [main EXCEPT ![side].pc =
                 IF side = "guest" /\ ~main[side].root THEN "aborted" ELSE "GetInstance"]
  /\ UNCHANGED <<layoutVars, ports, clients, faults, stream_len, sockets, chan, torn, hostLoop, guestLoop, tasks, pairs>>

\* GetShm: SocketForwardRegionView::GetInstance, LOG(FATAL) if it returns null
GetInstance(side) ==
  /\ main[side].pc = "GetInstance"
  /\ main' = [main EXCEPT ![side].pc =
                 IF main[side].shm THEN "CleanUpPreviousConnections" ELSE "aborted"]
  /\ UNCHANGED <<layoutVars, ports, clients, faults, stream_len, sockets, chan, torn, hostLoop, guestLoop, tasks, pairs>>

\* mutant: GetShm returns the view as it found it
CleanUpPreviousConnections_Skipped(side) ==
  /\ main[side].pc = "CleanUpPreviousConnections"
  /\ main' = [main EXCEPT ![side].pc = "StartWorker"]
  /\ UNCHANGED <<layoutVars, ports, clients, faults, stream_len, sockets, chan, torn, hostLoop, guestLoop, tasks, pairs>>

\* GetShm: shm->CleanUpPreviousConnections()
CleanUpPreviousConnections(side) ==
  /\ main[side].pc = "CleanUpPreviousConnections"
  /\ main' = [main EXCEPT ![side].pc = "StartWorker", ![side].cleanups = @ + 1]
  /\ UNCHANGED <<layoutVars, ports, clients, faults, stream_len, sockets, chan, torn, hostLoop, guestLoop, tasks, pairs>>

\* main: shm->StartWorker()
StartWorker(side) ==
  /\ main[side].pc = "StartWorker"
  /\ main' = [main EXCEPT ![side].pc = (IF side = "host" THEN "flags" ELSE "guest"),
                          ![side].workers = @ + 1]
  /\ UNCHANGED <<layoutVars, ports, clients, faults, stream_len, sockets, chan, torn, hostLoop, guestLoop, tasks, pairs>>

\* main on the host: CHECK(!FLAGS_guest_ports.empty()), CHECK(!FLAGS_host_ports.empty())
CheckFlags ==
  /\ main["host"].pc = "flags"
  /\ main' = [main EXCEPT !["host"].pc =
                 IF main["host"].guest_ports = 0 \/ main["host"].host_ports = 0
                 THEN "aborted" ELSE "ParsePortsList"]
  /\ UNCHANGED <<layoutVars, ports, clients, faults, stream_len, sockets, chan, torn, hostLoop, guestLoop, tasks, pairs>>

\* the pairs ParsePortsList builds from two lists of the same length
ZipPorts(n) == [i \in 1 .. n |-> PortPair(i)]

Min(a, b) == IF a < b THEN a ELSE b

\* mutant: the lists are zipped up to the shorter one
ParsePortsList_Shorter ==
  /\ main["host"].pc = "ParsePortsList"
  /\ main' = [main EXCEPT !["host"].pc = "host"]
  /\ ports' = ZipPorts(Min(main["host"].guest_ports, main["host"].host_ports))
  /\ UNCHANGED <<layoutVars, clients, faults, stream_len, sockets, chan, torn, hostLoop, guestLoop, tasks, pairs>>

\* ParsePortsList: CHECK(guest_ports.size() == host_ports.size()), then one
\* pair per position
ParsePortsList ==
  /\ main["host"].pc = "ParsePortsList"
  /\ IF main["host"].guest_ports = main["host"].host_ports
     THEN /\ main' = [main EXCEPT !["host"].pc = "host"]
          /\ ports' = ZipPorts(main["host"].guest_ports)
     ELSE /\ main' = [main EXCEPT !["host"].pc = "aborted"]
          /\ ports' = ports
  /\ UNCHANGED <<layoutVars, clients, faults, stream_len, sockets, chan, torn, hostLoop, guestLoop, tasks, pairs>>

\* host: CHECK(!ports.empty()), host_impl(shm, ports, 0)
host ==
  /\ main["host"].pc = "host"
  /\ IF ports = <<>>
     THEN /\ main' = [main EXCEPT !["host"].pc = "aborted"]
          /\ hostLoop' = hostLoop
     ELSE /\ main' = [main EXCEPT !["host"].pc = "running"]
          /\ hostLoop' = StartLoops(Len(ports))
  /\ UNCHANGED <<layoutVars, ports, clients, faults, stream_len, sockets, chan, torn, guestLoop, tasks, pairs>>

\* guest: the main loop starts with shm->AcceptConnection()
guest ==
  /\ main["guest"].pc = "guest"
  /\ main' = [main EXCEPT !["guest"].pc = "running"]
  /\ guestLoop' = IdleGuest
  /\ UNCHANGED <<layoutVars, ports, clients, faults, stream_len, sockets, chan, torn, hostLoop, tasks, pairs>>

\* the two processes at the entry of main, in any environment; one client
\* that sends one byte
StartupInit ==
  /\ main \in [Sides -> { MainAt("assert_correct_user", root, shm, guest_ports, host_ports) :
                            root \in BOOLEAN, shm \in BOOLEAN,
                            guest_ports \in 0 .. MaxPorts, host_ports \in 0 .. MaxPorts }]
  /\ ~main["host"].root
  /\ main["guest"].guest_ports = 0 /\ main["guest"].host_ports = 0
  /\ ports = <<>>
  /\ clients = 1
  /\ faults = MaxFaults
  /\ stream_len = [s \in SocketIds |-> IF s = <<"h", 1>> THEN 1 ELSE 0]
  /\ sockets = [s \in SocketIds |-> UnusedSocket]
  /\ chan = [k \in ConnIds |-> FreeConn]
  /\ torn = FALSE
  /\ hostLoop = <<>>
  /\ guestLoop = [IdleGuest EXCEPT !.pc = "off"]
  /\ tasks = <<>>
  /\ pairs = {}

---------------------------------------------------------------------------
(* host_impl and guest: the accept loops *)

\* host_impl starts the thread of the following port pair, if there is one,
\* before it handles its own
HostSpawn(p) ==
  /\ p \in DOMAIN hostLoop
  /\ hostLoop[p].pc = "start"
  /\ hostLoop' = [q \in DOMAIN hostLoop |->
                    IF q = p THEN [hostLoop[q] EXCEPT !.pc = "bind"]
                    ELSE IF q = p + 1
                         THEN [hostLoop[q] EXCEPT !.pc = "start", !.threads = @ + 1]
                         ELSE hostLoop[q]]
  /\ UNCHANGED <<layoutVars, main, ports, clients, faults, stream_len, sockets, chan, torn, guestLoop, tasks, pairs>>

\* SocketLocalServer(host_port) returns an open listener
HostBind(p) ==
  /\ p \in DOMAIN hostLoop
  /\ hostLoop[p].pc = "bind"
  /\ hostLoop' = [hostLoop EXCEPT ![p].pc = "accept", ![p].servers = @ + 1]
  /\ UNCHANGED <<layoutVars, main, ports, clients, faults, stream_len, sockets, chan, torn, guestLoop, tasks, pairs>>

\* SocketLocalServer returns a listener that is not open: the CHECK that
\* follows aborts the host process
HostBindFail(p) ==
  /\ faults > 0
  /\ faults' = faults - 1
  /\ p \in DOMAIN hostLoop
  /\ hostLoop[p].pc = "bind"
  /\ hostLoop' = [q \in DOMAIN hostLoop |-> [hostLoop[q] EXCEPT !.pc = IF q = p THEN "bind_failed" ELSE "aborted"]]
  /\ UNCHANGED <<layoutVars, main, ports, clients, stream_len, sockets, chan, torn, guestLoop, tasks, pairs>>

\* mutant: one thread serves all the listeners, one after the other
HostAccept_Serial(p) ==
  /\ p \in DOMAIN hostLoop
  /\ hostLoop[p].pc = "accept"
  /\ \A q \in DOMAIN ports : hostLoop[q].pc \in {"accept", "off", "start", "bind"}
  /\ \E s \in HostSockets :
         /\ sockets[s].state = "unused"
         /\ s[2] <= clients
         /\ Connects(s, p)
         /\ sockets' = [sockets EXCEPT ![s].state = "open",
                                       ![s].port = ports[p].host_port]
         /\ hostLoop' = [hostLoop EXCEPT ![p].pc = "open",
                                         ![p].client_socket = s]
  /\ UNCHANGED <<layoutVars, main, ports, clients, faults, stream_len, chan, torn, guestLoop, tasks, pairs>>

\* cvd::SharedFD::Accept returns the socket of a new client
HostAccept(p) ==
  /\ p \in DOMAIN hostLoop
  /\ hostLoop[p].pc = "accept"
  /\ \E s \in HostSockets :
         /\ sockets[s].state = "unused"
         /\ s[2] <= clients
         /\ Connects(s, p)
         /\ sockets' = [sockets EXCEPT ![s].state = "open",
                                       ![s].port = ports[p].host_port]
         /\ hostLoop' = [hostLoop EXCEPT ![p].pc = "open",
                                         ![p].client_socket = s]
  /\ UNCHANGED <<layoutVars, main, ports, clients, faults, stream_len, chan, torn, guestLoop, tasks, pairs>>

\* cvd::SharedFD::Accept returns a socket that is not open: the CHECK that
\* follows aborts the host process, all its threads with it
HostAcceptFail(p) ==
  /\ faults > 0
  /\ faults' = faults - 1
  /\ p \in DOMAIN hostLoop
  /\ hostLoop[p].pc = "accept"
  /\ hostLoop' = [q \in DOMAIN hostLoop |-> [hostLoop[q] EXCEPT !.pc = IF q = p THEN "accept_failed" ELSE "aborted"]]
  /\ UNCHANGED <<layoutVars, main, ports, clients, stream_len, sockets, chan, torn, guestLoop, tasks, pairs>>

\* mutant: every listener opens its connections to the first guest port
HostOpenConnection_FirstPort(p) ==
  /\ p \in DOMAIN hostLoop
  /\ hostLoop[p].pc = "open"
  /\ ~torn
  /\ \E k \in ConnIds :
       /\ chan[k].state = "free"
       /\ \A j \in ConnIds : chan[j].state = "free" => k <= j
       /\ chan' = [chan EXCEPT ![k].state = "opening",
                               ![k].port = ports[1].guest_port]
       /\ hostLoop' = [hostLoop EXCEPT ![p].pc = "opening", ![p].conn = k]
  /\ UNCHANGED <<layoutVars, main, ports, clients, faults, stream_len, sockets, torn, guestLoop, tasks, pairs>>

\* shm->OpenConnection(guest_port) registers the connection and blocks
HostOpenConnection(p) ==
  /\ p \in DOMAIN hostLoop
  /\ hostLoop[p].pc = "open"
  /\ ~torn
  /\ \E k \in ConnIds :
       /\ chan[k].state = "free"
       /\ \A j \in ConnIds : chan[j].state = "free" => k <= j
       /\ chan' = [chan EXCEPT ![k].state = "opening",
                               ![k].port = ports[p].guest_port]
       /\ hostLoop' = [hostLoop EXCEPT ![p].pc = "opening", ![p].conn = k]
  /\ UNCHANGED <<layoutVars, main, ports, clients, faults, stream_len, sockets, torn, guestLoop, tasks, pairs>>

\* OpenConnection returns once the guest accepted; LaunchWorkers
HostLaunch(p) ==
  /\ p \in DOMAIN hostLoop
  /\ hostLoop[p].pc = "opening"
  /\ chan[hostLoop[p].conn].state = "open"
  /\ tasks' = tasks \o LaunchWorkers("host", hostLoop[p].conn,
                                     hostLoop[p].client_socket)
  /\ pairs' = pairs \cup {<<"host", hostLoop[p].conn, hostLoop[p].client_socket>>}
  /\ sockets' = [sockets EXCEPT ![hostLoop[p].client_socket].shut_wr =
                                   @ + LaunchShutdowns(hostLoop[p].client_socket)]
  /\ hostLoop' = [hostLoop EXCEPT ![p].pc = "accept",
                                  ![p].client_socket = NoSocket,
                                  ![p].conn = NoConn]
  /\ UNCHANGED <<layoutVars, main, ports, clients, faults, stream_len, chan, torn, guestLoop>>

\* mutant: the guest accepts the next connection while it is still dialing
\* for the one before
GuestAccept_Eager ==
  /\ guestLoop.pc \in {"accept", "dial"}
  /\ ~torn
  /\ \E k \in ConnIds :
       /\ chan[k].state = "opening"
       /\ chan' = [chan EXCEPT ![k].state = "open"]
       /\ guestLoop' = [guestLoop EXCEPT !.pc = "dial", !.conn = k]
  /\ UNCHANGED <<layoutVars, main, ports, clients, faults, stream_len, sockets, torn, hostLoop, tasks, pairs>>


\* shm->AcceptConnection() returns a connection the host is opening
GuestAccept ==
  /\ guestLoop.pc = "accept"
  /\ ~torn
  /\ \E k \in ConnIds :
       /\ chan[k].state = "opening"
       /\ chan' = [chan EXCEPT ![k].state = "open"]
       /\ guestLoop' = [guestLoop EXCEPT !.pc = "dial", !.conn = k]
  /\ UNCHANGED <<layoutVars, main, ports, clients, faults, stream_len, sockets, torn, hostLoop, tasks, pairs>>

\* the local service comes up or goes down while the guest is dialing
ServiceChange ==
  /\ guestLoop.pc \in {"dial", "sleep"}
  /\ guestLoop' = [guestLoop EXCEPT !.reachable = ~@]
  /\ UNCHANGED <<layoutVars, main, ports, clients, faults, stream_len, sockets, chan, torn, hostLoop, tasks, pairs>>

\* mutant: after an attempt that failed the dial is given up
GuestDialRetry_GiveUp ==
  /\ guestLoop.pc = "dial"
  /\ ~guestLoop.reachable
  /\ guestLoop' = IdleGuest
  /\ UNCHANGED <<layoutVars, main, ports, clients, faults, stream_len, sockets, chan, torn, hostLoop, tasks, pairs>>

\* OpenSocketConnection(conn.first.port()): an attempt that fails; the loop
\* goes to sleep(1)
GuestDialRetry ==
  /\ guestLoop.pc = "dial"
  /\ ~guestLoop.reachable
  /\ guestLoop' = [guestLoop EXCEPT !.pc = "sleep", !.sleep = SleepSeconds]
  /\ UNCHANGED <<layoutVars, main, ports, clients, faults, stream_len, sockets, chan, torn, hostLoop, tasks, pairs>>

\* sleep(1) returns; the loop makes the next attempt
GuestDialSleep ==
  /\ guestLoop.pc = "sleep"
  /\ guestLoop' = [guestLoop EXCEPT !.pc = "dial", !.sleep = 0]
  /\ UNCHANGED <<layoutVars, main, ports, clients, faults, stream_len, sockets, chan, torn, hostLoop, tasks, pairs>>

\* mutant: the guest dials the first port of its list, whatever the
\* connection reported
GuestDialLaunch_FirstPort ==
  /\ guestLoop.pc = "dial"
  /\ guestLoop.reachable
  /\ LET s == NextSocket(sockets, GuestSockets)
     IN  /\ s # NoSocket
         /\ sockets' = [sockets EXCEPT ![s].state = "open",
                                       ![s].port = ports[1].guest_port,
                                       ![s].shut_wr = @ + LaunchShutdowns(s)]
         /\ tasks' = tasks \o LaunchWorkers("guest", guestLoop.conn, s)
         /\ pairs' = pairs \cup {<<"guest", guestLoop.conn, s>>}
  /\ guestLoop' = IdleGuest
  /\ UNCHANGED <<layoutVars, main, ports, clients, faults, stream_len, chan, torn, hostLoop>>

\* OpenSocketConnection: the attempt that yields an open socket; LaunchWorkers
GuestDialLaunch ==
  /\ guestLoop.pc = "dial"
  /\ guestLoop.reachable
  /\ LET s == NextSocket(sockets, GuestSockets)
     IN  /\ s # NoSocket
         /\ sockets' = [sockets EXCEPT ![s].state = "open",
                                       ![s].port = chan[guestLoop.conn].port,
                                       ![s].shut_wr = @ + LaunchShutdowns(s)]
         /\ tasks' = tasks \o LaunchWorkers("guest", guestLoop.conn, s)
         /\ pairs' = pairs \cup {<<"guest", guestLoop.conn, s>>}
  /\ guestLoop' = IdleGuest
  /\ UNCHANGED <<layoutVars, main, ports, clients, faults, stream_len, chan, torn, hostLoop>>

---------------------------------------------------------------------------
(* SocketToShm and ShmToSocket: the forwarding threads *)

Queue(t) == chan[tasks[t].conn][SendQueue(tasks[t].side)]
Inbox(t) == chan[tasks[t].conn][RecvQueue(tasks[t].side)]

\* mutant: an empty packet is skipped and the loop reads again
SocketToShmRecv_ReadsOn(t, size) ==
  /\ size < 0 => faults > 0
  /\ faults' = (IF size < 0 THEN faults - 1 ELSE faults)
  /\ t \in DOMAIN tasks
  /\ Alive(tasks[t].side)
  /\ tasks[t].kind = "SocketToShm"
  /\ tasks[t].pc = "recv"
  /\ size \in ReadResults(sockets, stream_len, tasks[t].sock)
  /\ LET packet == SocketReceiverRecv(sockets, tasks[t].sock, size)
     IN  /\ sockets' = [sockets EXCEPT ![tasks[t].sock].rdpos =
                                          @ + payload_length(packet)]
         /\ tasks' = IF SocketClosed(packet)
                     THEN [tasks EXCEPT ![t].why = "closed"]
                     ELSE [tasks EXCEPT ![t].pc = "send",
                                        ![t].packet = packet]
  /\ UNCHANGED <<layoutVars, main, ports, clients, stream_len, chan, torn, hostLoop, guestLoop, pairs>>

\* socket_receiver.Recv(&packet); if (packet.empty()) break;
SocketToShmRecv(t, size) ==
  /\ size < 0 => faults > 0
  /\ faults' = (IF size < 0 THEN faults - 1 ELSE faults)
  /\ t \in DOMAIN tasks
  /\ Alive(tasks[t].side)
  /\ tasks[t].kind = "SocketToShm"
  /\ tasks[t].pc = "recv"
  /\ size \in ReadResults(sockets, stream_len, tasks[t].sock)
  /\ LET packet == SocketReceiverRecv(sockets, tasks[t].sock, size)
     IN  /\ sockets' = [sockets EXCEPT ![tasks[t].sock].rdpos =
                                          @ + payload_length(packet)]
         /\ tasks' = IF SocketClosed(packet)
                     THEN [tasks EXCEPT ![t].pc = "exit",
                                        ![t].why = "closed"]
                     ELSE [tasks EXCEPT ![t].pc = "send",
                                        ![t].packet = packet]
  /\ UNCHANGED <<layoutVars, main, ports, clients, stream_len, chan, torn, hostLoop, guestLoop, pairs>>

\* mutant: after Send returned false the loop goes on
SocketToShmSend_Retry(t) ==
  /\ t \in DOMAIN tasks
  /\ Alive(tasks[t].side)
  /\ tasks[t].kind = "SocketToShm"
  /\ tasks[t].pc = "send"
  /\ IF torn
     THEN /\ tasks' = [tasks EXCEPT ![t].pc = "recv", ![t].why = "sendfail",
                                    ![t].packet = MakeData]
          /\ chan' = chan
     ELSE /\ Len(Queue(t)) < QueueCap
          /\ chan' = [chan EXCEPT ![tasks[t].conn][SendQueue(tasks[t].side)] =
                                    Append(@, tasks[t].packet)]
          /\ tasks' = [tasks EXCEPT ![t].pc = "recv", ![t].packet = MakeData]
  /\ UNCHANGED <<layoutVars, main, ports, clients, faults, stream_len, sockets, torn, hostLoop, guestLoop, pairs>>

\* if (!shm_sender.Send(packet)) break;  Send blocks while the queue is full
\* and returns false once the segment is gone
SocketToShmSend(t) ==
  /\ t \in DOMAIN tasks
  /\ Alive(tasks[t].side)
  /\ tasks[t].kind = "SocketToShm"
  /\ tasks[t].pc = "send"
  /\ IF torn
     THEN /\ tasks' = [tasks EXCEPT ![t].pc = "exit", ![t].why = "sendfail",
                                    ![t].packet = MakeData]
          /\ chan' = chan
     ELSE /\ Len(Queue(t)) < QueueCap
          /\ chan' = [chan EXCEPT ![tasks[t].conn][SendQueue(tasks[t].side)] =
                                    Append(@, tasks[t].packet)]
          /\ tasks' = [tasks EXCEPT ![t].pc = "recv", ![t].packet = MakeData]
  /\ UNCHANGED <<layoutVars, main, ports, clients, faults, stream_len, sockets, torn, hostLoop, guestLoop, pairs>>

\* SocketToShm returns: the Sender is destroyed, which tells the peer that
\* the stream ended
SocketToShmExit(t) ==
  /\ t \in DOMAIN tasks
  /\ Alive(tasks[t].side)
  /\ tasks[t].kind = "SocketToShm"
  /\ tasks[t].pc = "exit"
  /\ IF torn
     THEN chan' = chan
     ELSE /\ Len(Queue(t)) < QueueCap
          /\ chan' = [chan EXCEPT ![tasks[t].conn][SendQueue(tasks[t].side)] =
                                    Append(@, MakeEnd)]
  /\ tasks' = [tasks EXCEPT ![t].pc = "done"]
  /\ UNCHANGED <<layoutVars, main, ports, clients, faults, stream_len, sockets, torn, hostLoop, guestLoop, pairs>>

\* what shm_receiver.Recv(&packet) gave: the end packet, a packet with
\* payload, or a packet with neither
PacketKind(packet) ==
  IF IsEnd(packet) THEN "end"
  ELSE IF 0 < payload_length(packet) THEN "data" ELSE "empty"

\* mutant: a packet without payload is taken for the end of the stream
ShmToSocketGot_EmptyEnds(t, packet) ==
  IF IsEnd(packet) \/ empty(packet)
  THEN /\ tasks' = [tasks EXCEPT ![t].pc = "done", ![t].why = "end",
                                 ![t].got = PacketKind(packet)]
       /\ sockets' = [sockets EXCEPT ![tasks[t].sock].shut_wr =
                                 @ + DestroySocketSender(tasks[t].sock)]
  ELSE /\ tasks' = [tasks EXCEPT ![t].pc = "sendall", ![t].got = "data",
                                 ![t].packet = packet, ![t].written = 0]
       /\ sockets' = sockets

\* ShmToSocket after shm_receiver.Recv(&packet) gave packet: break on IsEnd
\* (the SocketSender is destroyed: Shutdown(SHUT_WR)), else enter SendAll,
\* which returns 0 at once for a packet without payload
ShmToSocketGot(t, packet) ==
  IF IsEnd(packet)
  THEN /\ tasks' = [tasks EXCEPT ![t].pc = "done", ![t].why = "end",
                                 ![t].got = "end"]
       /\ sockets' = [sockets EXCEPT ![tasks[t].sock].shut_wr =
                                 @ + DestroySocketSender(tasks[t].sock)]
  ELSE /\ tasks' = IF 0 < payload_length(packet)
                   THEN [tasks EXCEPT ![t].pc = "sendall", ![t].got = "data",
                                      ![t].packet = packet, ![t].written = 0]
                   ELSE [tasks EXCEPT ![t].got = "empty"]
       /\ sockets' = sockets

\* shm_receiver.Recv(&packet) takes the next packet of the connection
ShmToSocketRecv(t) ==
  /\ t \in DOMAIN tasks
  /\ Alive(tasks[t].side)
  /\ tasks[t].kind = "ShmToSocket"
  /\ tasks[t].pc = "recv"
  /\ ~torn
  /\ Inbox(t) # <<>>
  /\ chan' = [chan EXCEPT ![tasks[t].conn][RecvQueue(tasks[t].side)] = Tail(@)]
  /\ ShmToSocketGot(t, Head(Inbox(t)))
  /\ UNCHANGED <<layoutVars, main, ports, clients, faults, stream_len, torn, hostLoop, guestLoop, pairs>>

\* shm_receiver.Recv(&packet) once the segment is gone: a packet with
\* payload_length 0, carrying the end marker or not
ShmToSocketRecvTorn(t, end) ==
  /\ t \in DOMAIN tasks
  /\ Alive(tasks[t].side)
  /\ tasks[t].kind = "ShmToSocket"
  /\ tasks[t].pc = "recv"
  /\ torn
  /\ ShmToSocketGot(t, [MakeData EXCEPT !.end = end])
  /\ UNCHANGED <<layoutVars, main, ports, clients, faults, stream_len, chan, torn, hostLoop, guestLoop, pairs>>

\* mutant: a failed SendAll stops every thread of the process
ShmToSocketSend_FailStopsAll(t, just_written) ==
  /\ just_written <= 0 => faults > 0
  /\ faults' = (IF just_written <= 0 THEN faults - 1 ELSE faults)
  /\ t \in DOMAIN tasks
  /\ Alive(tasks[t].side)
  /\ tasks[t].kind = "ShmToSocket"
  /\ tasks[t].pc = "sendall"
  /\ just_written \in
       SendResults(payload_length(tasks[t].packet) - tasks[t].written)
  /\ LET st == SendAllStep(sockets, tasks[t].sock, tasks[t].packet,
                           tasks[t].written, just_written)
     IN  IF st.done /\ SendAllFailed(st.ret)
         THEN /\ tasks' = [u \in DOMAIN tasks |->
                            IF tasks[u].side = tasks[t].side
                            THEN [tasks[u] EXCEPT !.pc = "done", !.why = "werr"]
                            ELSE tasks[u]]
              /\ sockets' = [sockets EXCEPT ![tasks[t].sock].shut_wr =
                                 @ + DestroySocketSender(tasks[t].sock)]
         ELSE /\ tasks' = IF st.done
                          THEN [tasks EXCEPT ![t].pc = "recv",
                                             ![t].packet = MakeData,
                                             ![t].written = 0]
                          ELSE [tasks EXCEPT ![t].written = st.written]
              /\ sockets' = [sockets EXCEPT ![tasks[t].sock].out = @ \o st.sent]
  /\ UNCHANGED <<layoutVars, main, ports, clients, stream_len, chan, torn, hostLoop, guestLoop, pairs>>

\* one socket_->Send of SendAll, and what ShmToSocket does when SendAll
\* returns
ShmToSocketSend(t, just_written) ==
  /\ just_written <= 0 => faults > 0
  /\ faults' = (IF just_written <= 0 THEN faults - 1 ELSE faults)
  /\ t \in DOMAIN tasks
  /\ Alive(tasks[t].side)
  /\ tasks[t].kind = "ShmToSocket"
  /\ tasks[t].pc = "sendall"
  /\ just_written \in
       SendResults(payload_length(tasks[t].packet) - tasks[t].written)
  /\ LET st == SendAllStep(sockets, tasks[t].sock, tasks[t].packet,
                           tasks[t].written, just_written)
     IN  IF st.done /\ SendAllFailed(st.ret)
         THEN /\ tasks' = [tasks EXCEPT ![t].pc = "done", ![t].why = "werr",
                                        ![t].packet = MakeData,
                                        ![t].written = 0]
              /\ sockets' = [sockets EXCEPT
                               ![tasks[t].sock].out = @ \o st.sent,
                               ![tasks[t].sock].shut_wr =
                                 @ + DestroySocketSender(tasks[t].sock)]
         ELSE /\ tasks' = IF st.done
                          THEN [tasks EXCEPT ![t].pc = "recv",
                                             ![t].packet = MakeData,
                                             ![t].written = 0]
                          ELSE [tasks EXCEPT ![t].written = st.written]
              /\ sockets' = [sockets EXCEPT ![tasks[t].sock].out = @ \o st.sent]
  /\ UNCHANGED <<layoutVars, main, ports, clients, stream_len, chan, torn, hostLoop, guestLoop, pairs>>

\* the shared segment is lost (explored in the runs with at most
\* MaxTornClients clients)
Teardown ==
  /\ clients <= MaxTornClients \/ tasks = <<>>
  /\ faults > 0
  /\ faults' = faults - 1
  /\ ~torn
  /\ torn' = TRUE
  /\ UNCHANGED <<layoutVars, main, ports, clients, stream_len, sockets, chan, hostLoop, guestLoop, tasks,
                 pairs>>

\* the threads there can be: two per LaunchWorkers call, one call per side
\* and client
TaskIds == 1 .. (4 * MaxClients)

ProxyNext ==
  \/ \E p \in DOMAIN Ports : HostSpawn(p)
  \/ \E p \in DOMAIN Ports : HostBind(p)
  \/ \E p \in DOMAIN Ports : HostBindFail(p)
  \/ \E p \in DOMAIN Ports : HostAccept(p)
  \/ \E p \in DOMAIN Ports : HostAcceptFail(p)
  \/ \E p \in DOMAIN Ports : HostOpenConnection(p)
  \/ \E p \in DOMAIN Ports : HostLaunch(p)
  \/ GuestAccept
  \/ ServiceChange
  \/ GuestDialRetry
  \/ GuestDialSleep
  \/ GuestDialLaunch
  \/ \E t \in TaskIds, size \in (0 - 1) .. PacketCapacity :
       SocketToShmRecv(t, size)
  \/ \E t \in TaskIds : SocketToShmSend(t)
  \/ \E t \in TaskIds : SocketToShmExit(t)
  \/ \E t \in TaskIds : ShmToSocketRecv(t)
  \/ \E t \in TaskIds, end \in BOOLEAN : ShmToSocketRecvTorn(t, end)
  \/ \E t \in TaskIds, just_written \in (0 - 1) .. PacketCapacity :
       ShmToSocketSend(t, just_written)
  \/ Teardown

\* the proxy from the entry of main of its two processes
StartupNext ==
  \/ \E side \in Sides : assert_correct_user(side)
  \/ \E side \in Sides : GetInstance(side)
  \/ \E side \in Sides : CleanUpPreviousConnections(side)
  \/ \E side \in Sides : StartWorker(side)
  \/ CheckFlags
  \/ ParsePortsList
  \/ host
  \/ guest
  \/ \E p \in DOMAIN Ports : HostSpawn(p)
  \/ \E p \in DOMAIN Ports : HostBind(p)
  \/ \E p \in DOMAIN Ports : HostBindFail(p)
  \/ \E p \in DOMAIN Ports : HostAccept(p)
  \/ \E p \in DOMAIN Ports : HostAcceptFail(p)
  \/ \E p \in DOMAIN Ports : HostOpenConnection(p)
  \/ \E p \in DOMAIN Ports : HostLaunch(p)
  \/ GuestAccept
  \/ ServiceChange
  \/ GuestDialRetry
  \/ GuestDialSleep
  \/ GuestDialLaunch
  \/ \E t \in TaskIds, size \in (0 - 1) .. PacketCapacity :
       SocketToShmRecv(t, size)
  \/ \E t \in TaskIds : SocketToShmSend(t)
  \/ \E t \in TaskIds : SocketToShmExit(t)
  \/ \E t \in TaskIds : ShmToSocketRecv(t)
  \/ \E t \in TaskIds, end \in BOOLEAN : ShmToSocketRecvTorn(t, end)
  \/ \E t \in TaskIds, just_written \in (0 - 1) .. PacketCapacity :
       ShmToSocketSend(t, just_written)
  \/ Teardown

---------------------------------------------------------------------------
(* Specifications *)

StartupSpecInit == StartupInit /\ LayoutIdle
StartupSpec == StartupSpecInit /\ [][StartupNext]_vars

LayoutSpecInit == LayoutInit /\ ProxyIdle
LayoutSpec == LayoutSpecInit /\ [][LayoutNext]_vars

\* the layout planner over regions of every signal table size
SignalTableSpecInit == SignalTableInit /\ ProxyIdle
SignalTableSpec == SignalTableSpecInit /\ [][LayoutNext]_vars

\* one client, up to MaxBytes bytes in the two directions
ProxyInit == ProxyInitFor(1) /\ LayoutIdle
ProxySpec == ProxyInit /\ [][ProxyNext]_vars

\* MaxClients clients at the same time
ProxyPairInit == ProxyInitFor(MaxClients) /\ LayoutIdle
ProxyPairSpec == ProxyPairInit /\ [][ProxyNext]_vars

\* every thread that can run gets to run; a dial that can succeed does
WorkerStep(t) ==
  \/ \E size \in (0 - 1) .. PacketCapacity : SocketToShmRecv(t, size)
  \/ SocketToShmSend(t)
  \/ SocketToShmExit(t)
  \/ ShmToSocketRecv(t)
  \/ \E just_written \in (0 - 1) .. PacketCapacity :
       ShmToSocketSend(t, just_written)

Fairness ==
  /\ \A t \in TaskIds : WF_vars(WorkerStep(t))
  /\ \A p \in DOMAIN Ports : WF_vars(HostSpawn(p) \/ HostBind(p) \/ HostAccept(p) \/ HostOpenConnection(p) \/ HostLaunch(p))
  /\ WF_vars(GuestAccept)
  /\ WF_vars(GuestDialRetry \/ GuestDialSleep \/ GuestDialLaunch)

ProxyFairSpec == ProxyInit /\ [][ProxyNext]_vars /\ Fairness

---------------------------------------------------------------------------
(* Notions the claims are stated in *)

Ready == phase = "ready"
LastIndex == NumRegions(regions_) - 1
\* end of region i, in size_t arithmetic
RegionEnd(i) == regions_[i].begin_offset + regions_[i].size
KnownRegion(region_name) == region_name \in DOMAIN region_idx_by_name_

\* the least multiple of the page size that is >= v
PageCeil(v) ==
  CHOOSE m \in 0 .. (v + PageSize) :
    m % PageSize = 0 /\ m >= v /\ m - v < PageSize

\* signal-table overhead + payload_size, page-aligned
RequiredSize(region) ==
  PageCeil(SizeofUint32 * (2 ^ region.g2h_log_size)
           + SizeofUint32 * (2 ^ region.h2g_log_size)
           + 2 * SizeofUint32 + region.layout_size)

IsPowerOf2(n) == \E e \in 0 .. (UintBits + 1) : n = 2 ^ e

IsPrefix(a, b) == Len(a) <= Len(b) /\ SubSeq(b, 1, Len(a)) = a

\* the bytes read so far from socket s
BytesRead(s) == Chunk(s, 0, sockets[s].rdpos)

Sender(t) == tasks[t].kind = "SocketToShm"
Writer(t) == tasks[t].kind = "ShmToSocket"

\* the SocketToShm thread of socket s saw the stream end (a read of zero
\* bytes, or a failed read)
SourceClosed(s) ==
  \E t \in DOMAIN tasks : Sender(t) /\ tasks[t].sock = s /\ tasks[t].why = "closed"

---------------------------------------------------------------------------
(* Claims: the region layout planner *)

\* C1: after construction and after any ResizeRegion calls consecutive regions
\* are contiguous: begin_offset[i] + region_size[i] = begin_offset[i+1].
C1_Contiguous ==
  Ready =>
    \A i \in DOMAIN regions_ :
       (i + 1) \in DOMAIN regions_ =>
          RegionEnd(i) = regions_[i + 1].begin_offset

\* C2: after construction and after any ResizeRegion calls every region's
\* begin_offset and region_size are multiples of the page size.
C2_Aligned ==
  Ready =>
    \A i \in DOMAIN regions_ :
       /\ regions_[i].begin_offset % PageSize = 0
       /\ regions_[i].size % PageSize = 0

C2_Witness ==
  /\ Ready
  /\ call.op = "resize" /\ call.ret = "true"
  /\ call.req % PageSize # 0
  /\ call.index < LastIndex
  /\ regions_[call.index].size > RequiredSize(regions_[call.index])

\* C3 (as claimed): ResizeRegion returns false whenever the requested size is
\* smaller than the region's minimum required size.
C3_Original ==
  (call.op = "resize" /\ KnownRegion(call.name)
     /\ call.req < RequiredSize(regions_[region_idx_by_name_[call.name]]))
  => call.ret = "false"

\* C3 (amended): ResizeRegion returns false whenever the requested size,
\* rounded up to a multiple of the page size, is smaller than the region's
\* minimum required size.
C3_Amended ==
  (call.op = "resize" /\ KnownRegion(call.name)
     /\ PageCeil(call.req)
          < RequiredSize(regions_[region_idx_by_name_[call.name]]))
  => call.ret = "false"

C3_Witness ==
  /\ call.op = "resize" /\ KnownRegion(call.name)
  /\ call.ret = "false"
  /\ 0 < call.req
  /\ call.req < RequiredSize(regions_[region_idx_by_name_[call.name]])

\* C4: ResizeRegion returns false for a name that is not in the layout, and a
\* call that returns false leaves every region and the device size unchanged.
C4_RejectedUnchanged ==
  [][ /\ (call'.op = "resize" /\ ~KnownRegion(call'.name))
           => call'.ret = "false"
      /\ (call'.op = "resize" /\ call'.ret = "false")
           => /\ regions_' = regions_
              /\ device_size_' = device_size_
              /\ region_idx_by_name_' = region_idx_by_name_ ]_vars

C4_Witness ==
  /\ call.op = "resize" /\ call.ret = "false"
  /\ call.name = UnknownName
  /\ \E i \in DOMAIN regions_ : regions_[i].size > RequiredSize(regions_[i])

\* C5: a successful ResizeRegion of region k leaves the regions before k, the
\* begin_offset of k and the region_size of the regions after k unchanged.
C5_Frame ==
  [][ (call'.op = "resize" /\ call'.ret = "true") =>
        \A i \in DOMAIN regions_ :
           /\ i < call'.index => regions_'[i] = regions_[i]
           /\ i = call'.index =>
                regions_'[i].begin_offset = regions_[i].begin_offset
           /\ i > call'.index => regions_'[i].size = regions_[i].size ]_vars

C5_Witness ==
  /\ Ready
  /\ call.op = "resize" /\ call.ret = "true"
  /\ 0 < call.index /\ call.index < LastIndex
  /\ regions_[call.index].size > RequiredSize(regions_[call.index])
  /\ regions_[call.index + 1].begin_offset = RegionEnd(call.index)

\* C6: in every constructed layout each manager is declared before the region
\* it manages (construction is fatal for an undeclared, a later or a self
\* manager).
C6_ManagerDeclaredEarlier ==
  Ready =>
    \A i \in DOMAIN regions_ :
       regions_[i].managed_by # NULL =>
          /\ KnownRegion(regions_[i].managed_by)
          /\ region_idx_by_name_[regions_[i].managed_by] < i

\* C7: after construction and after every successful ResizeRegion device_size
\* is the smallest power of two >= begin_offset[last] + region_size[last].
C7_DeviceSize ==
  Ready =>
    /\ IsPowerOf2(device_size_)
    /\ device_size_ >= RegionEnd(LastIndex)
    /\ \A e \in 0 .. (UintBits + 1) :
         2 ^ e >= RegionEnd(LastIndex) => device_size_ <= 2 ^ e

---------------------------------------------------------------------------
(* Claims: the forwarding threads *)

\* socket s feeds socket d: they are the two ends of one connection
Feeds(s, d) ==
  \E side \in Sides, k \in ConnIds :
     <<side, k, s>> \in pairs /\ <<OtherSide(side), k, d>> \in pairs

\* C8: for one connection and one direction the bytes written to the
\* destination socket by ShmToSocket are at every moment a prefix of the bytes
\* read from the source socket by SocketToShm.
C8_Prefix ==
  \A d \in SocketIds :
     /\ (\A s \in SocketIds : ~Feeds(s, d)) => sockets[d].out = <<>>
     /\ \A s \in SocketIds :
          Feeds(s, d) => IsPrefix(sockets[d].out, BytesRead(s))

\* C9: under fair scheduling, once the source socket's read returned zero
\* bytes the paired destination socket is eventually write-shutdown (as long as
\* the shared segment stays and the host process runs), the ShmToSocket thread that stopped on the end
\* packet has by then written all the payload read from the source, and
\* nothing is written to the destination after the shutdown.
C9_StreamEnd ==
  /\ \A s \in SocketIds, d \in SocketIds :
       (Feeds(s, d) /\ SourceClosed(s))
          ~> (sockets[d].shut_wr > 0 \/ torn \/ ~Alive("host"))
  /\ [](\A s \in SocketIds, d \in SocketIds :
          ( /\ Feeds(s, d) /\ SourceClosed(s) /\ ~torn
            /\ \E t \in DOMAIN tasks :
                  Writer(t) /\ tasks[t].sock = d /\ tasks[t].why = "end" )
          => sockets[d].out = BytesRead(s))
  /\ [][\A d \in SocketIds :
          sockets[d].shut_wr > 0 => sockets'[d].out = sockets[d].out]_vars

\* C10: with several connections open at the same time every byte written to
\* a socket was read from the socket paired with the same connection at the
\* other end.
C10_Isolation ==
  \A d \in SocketIds :
     \A i \in 1 .. Len(sockets[d].out) :
        /\ Feeds(sockets[d].out[i][1], d)
        /\ sockets[d].out[i][2] <= sockets[sockets[d].out[i][1]].rdpos

C10_Witness ==
  \E d1 \in SocketIds, d2 \in SocketIds, k1 \in ConnIds, k2 \in ConnIds :
     /\ k1 # k2
     /\ <<"guest", k1, d1>> \in pairs /\ <<"guest", k2, d2>> \in pairs
     /\ sockets[d1].out # <<>> /\ sockets[d2].out # <<>>
     /\ sockets[d1].shut_wr = 0 /\ sockets[d2].shut_wr = 0

\* the SocketToShm thread started by the same LaunchWorkers call as thread t
Sibling(t) ==
  CHOOSE u \in DOMAIN tasks :
    Sender(u) /\ tasks[u].sock = tasks[t].sock /\ tasks[u].side = tasks[t].side

Exited(u) == tasks[u].pc \in {"exit", "done"}

\* C11: the two directions of a connection end independently.  Once the
\* SocketToShm thread has exited, the ShmToSocket thread of the same
\* connection (1) is not changed by the exit, nor is its socket shut down by
\* it, (2) has stopped only if it received end-of-stream or SendAll failed,
\* and (3) goes on to the next packet only after writing the whole payload
\* of the packet it received.
C11_Independent ==
  /\ [][\A t \in DOMAIN tasks :
          (Writer(t) /\ ~Exited(Sibling(t)) /\ Exited(Sibling(t))')
             => /\ tasks'[t] = tasks[t]
                /\ sockets'[tasks[t].sock].shut_wr = sockets[tasks[t].sock].shut_wr
                /\ sockets'[tasks[t].sock].state = "open"]_vars
  /\ [](\A t \in DOMAIN tasks :
          (Writer(t) /\ Exited(Sibling(t)) /\ tasks[t].pc = "done")
             => tasks[t].why \in {"end", "werr"})
  /\ [][\A t \in DOMAIN tasks :
          ( /\ Writer(t) /\ Exited(Sibling(t))
            /\ tasks[t].pc = "sendall" /\ tasks'[t].pc = "recv" )
             => tasks[t].written
                  + Len(sockets'[tasks[t].sock].out)
                  - Len(sockets[tasks[t].sock].out)
                = payload_length(tasks[t].packet)]_vars

\* C12: a packet without payload and without the end marker is not the end
\* of the stream for ShmToSocket: having received one, the thread is back at
\* Recv, has not stopped and has not shut the socket down; a thread that has
\* stopped received the end packet or had SendAll fail.
C12_EmptyIsNotEnd ==
  \A t \in DOMAIN tasks :
     Writer(t) =>
       /\ tasks[t].got = "empty" =>
            /\ tasks[t].pc = "recv" /\ tasks[t].why = "running"
            /\ sockets[tasks[t].sock].shut_wr = 0
       /\ tasks[t].pc = "done" => tasks[t].why \in {"end", "werr"}
       /\ tasks[t].why = "end" => tasks[t].got = "end"

C12_Witness ==
  \E t \in DOMAIN tasks :
     /\ Writer(t) /\ tasks[t].got = "empty"
     /\ sockets[tasks[t].sock].out # <<>>

\* a thread that has left its loop stays out of it
StoppedForGood ==
  \A t \in DOMAIN tasks : Exited(t) => Exited(t)'

\* after Sender.Send returned false SocketToShm has left its loop
SendFailureEnds ==
  \A t \in DOMAIN tasks :
     (Sender(t) /\ tasks[t].why = "sendfail") => Exited(t)

SocketFailure(t) ==
  /\ tasks[t].why = "running"
  /\ tasks'[t].why \in {"closed", "werr"}

\* thread u belongs to another connection than thread t
OtherConnection(t, u) == tasks[u].conn # tasks[t].conn

\* a socket failure of one connection leaves the accept loops and the threads
\* and sockets of every other connection as they were
FailureIsLocal ==
  \A t \in DOMAIN tasks :
     SocketFailure(t) =>
       /\ hostLoop' = hostLoop /\ guestLoop' = guestLoop
       /\ \A u \in DOMAIN tasks :
            OtherConnection(t, u) =>
               /\ tasks'[u] = tasks[u]
               /\ sockets'[tasks[u].sock] = sockets[tasks[u].sock]

\* C14 (as claimed): a failed read, write, accept or dial of one connection
\* ends forwarding for that connection only; the process does not abort and
\* the accept loops and the threads of the other connections keep running.
C14_Original ==
  /\ [][FailureIsLocal]_vars
  /\ [](\A p \in DOMAIN hostLoop : hostLoop[p].pc # "accept_failed")
  /\ []Alive("guest")

\* C14 (amended): a failed read or write of one connection ends forwarding
\* for that connection only, and a failed dial is tried again; the host
\* process aborts when an accept fails, and otherwise only when a listener
\* cannot be bound.
C14_Amended ==
  /\ [][FailureIsLocal]_vars
  /\ [][(Alive("host") /\ ~Alive("host")') =>
          /\ \E p \in DOMAIN hostLoop :
                \/ hostLoop[p].pc = "accept" /\ hostLoop'[p].pc = "accept_failed"
                \/ hostLoop[p].pc = "bind" /\ hostLoop'[p].pc = "bind_failed"
          /\ tasks' = tasks /\ sockets' = sockets /\ guestLoop' = guestLoop]_vars
  /\ []Alive("guest")

C14_Witness ==
  \E t \in DOMAIN tasks, u \in DOMAIN tasks :
     /\ OtherConnection(t, u)
     /\ Writer(t) /\ tasks[t].why = "werr"
     /\ Writer(u) /\ tasks[u].side = tasks[t].side
     /\ tasks[u].why = "end" /\ sockets[tasks[u].sock].out # <<>>
     /\ Alive("host")

Dialing == guestLoop.pc \in {"dial", "sleep"}

\* what a step of OpenSocketConnection may do
DialStep ==
  /\ (guestLoop.pc = "dial" /\ guestLoop'.pc = "sleep") =>
        /\ ~guestLoop.reachable
        /\ guestLoop'.sleep = SleepSeconds
        /\ guestLoop'.conn = guestLoop.conn
        /\ sockets' = sockets /\ tasks' = tasks /\ pairs' = pairs
  /\ guestLoop.pc = "sleep" => guestLoop'.pc \in {"sleep", "dial"}
  /\ guestLoop.pc = "dial" => guestLoop'.pc \in {"dial", "sleep", "accept"}
  /\ (guestLoop.pc = "dial" /\ guestLoop'.pc = "accept") =>
        /\ guestLoop.reachable
        /\ \E s \in GuestSockets :
             /\ pairs' = pairs \cup {<<"guest", guestLoop.conn, s>>}
             /\ ~IsOpen(sockets, s) /\ IsOpen(sockets', s)

\* C15: OpenSocketConnection does not give up and does not return a socket
\* that is not open: a failed attempt is followed by sleep(1) and another
\* attempt, whatever their number, the function returns exactly on an attempt
\* that yields an open socket, and if the local service is reachable from
\* some moment on the dial succeeds.
C15_DialRetries ==
  /\ [][DialStep]_vars
  /\ (<>[]guestLoop.reachable) => (Dialing ~> ~Dialing)

C15_Witness ==
  /\ guestLoop.pc = "sleep"
  /\ guestLoop.reachable
  /\ guestLoop.sleep = SleepSeconds
  /\ tasks # <<>>

\* the sockets Accept returned on the listener of port pair p
AcceptedOn(p) ==
  { s \in HostSockets :
      sockets[s].state # "unused" /\ sockets[s].port = ports[p].host_port }

\* the connections opened by OpenConnection(guest_port of port pair p)
OpenedFor(p) ==
  { k \in ConnIds :
      chan[k].state # "free" /\ chan[k].port = ports[p].guest_port }

\* one turn of the loop of host_impl
HostLoopStep ==
  \A p \in DOMAIN ports :
     /\ hostLoop[p].pc = "open" =>
          /\ hostLoop'[p].pc \in {"open", "opening", "aborted"}
          /\ hostLoop'[p].pc # "opening" => OpenedFor(p)' = OpenedFor(p)
          /\ hostLoop'[p].pc = "opening" =>
               /\ hostLoop'[p].client_socket = hostLoop[p].client_socket
               /\ OpenedFor(p)' = OpenedFor(p) \cup {hostLoop'[p].conn}
               /\ hostLoop'[p].conn \notin OpenedFor(p)
               /\ \A q \in DOMAIN ports : q # p => OpenedFor(q)' = OpenedFor(q)
     /\ hostLoop[p].pc = "opening" =>
          /\ hostLoop'[p].pc \in {"opening", "accept", "aborted"}
          /\ OpenedFor(p)' = OpenedFor(p)
          /\ hostLoop'[p].pc = "accept" =>
               /\ pairs' = pairs \cup
                     {<<"host", hostLoop[p].conn, hostLoop[p].client_socket>>}
               /\ tasks' = tasks \o
                     LaunchWorkers("host", hostLoop[p].conn, hostLoop[p].client_socket)
     /\ (hostLoop[p].pc = hostLoop'[p].pc /\ hostLoop[p].pc \in {"open", "opening"}) =>
          hostLoop'[p] = hostLoop[p]

\* C16: on the host every client accepted on the listener of a host port
\* leads to exactly one OpenConnection call, made with the guest port
\* configured for that host port, and the accepted socket is paired with the
\* connection that call returned and with no other.
C16_AcceptOpensOne ==
  /\ [](Alive("host") =>
         \A p \in DOMAIN ports :
            /\ Cardinality(OpenedFor(p)) + (IF hostLoop[p].pc = "open" THEN 1 ELSE 0)
                 = Cardinality(AcceptedOn(p))
            /\ hostLoop[p].pc \in {"open", "opening"} =>
                 hostLoop[p].client_socket \in AcceptedOn(p)
            /\ hostLoop[p].pc = "opening" => hostLoop[p].conn \in OpenedFor(p))
  /\ [](\A x \in pairs :
          x[1] = "host" =>
            /\ \E p \in DOMAIN ports : x[3] \in AcceptedOn(p) /\ x[2] \in OpenedFor(p)
            /\ \A y \in pairs :
                 (y[1] = "host" /\ (y[2] = x[2] \/ y[3] = x[3])) => y = x)
  /\ [][HostLoopStep]_vars

C16_Witness ==
  \E x \in pairs, y \in pairs :
     /\ x[1] = "host" /\ y[1] = "host"
     /\ \E p \in DOMAIN ports, q \in DOMAIN ports :
          /\ p # q
          /\ x[3] \in AcceptedOn(p) /\ x[2] \in OpenedFor(p)
          /\ y[3] \in AcceptedOn(q) /\ y[2] \in OpenedFor(q)

\* a client of the listener of port pair q waits to be accepted
ClientWaits(q) ==
  \E s \in HostSockets :
     sockets[s].state = "unused" /\ s[2] <= clients /\ Connects(s, q)

\* the thread of port pair p is blocked, in Accept or in OpenConnection
Blocked(p) ==
  \/ hostLoop[p].pc = "accept" /\ ~ClientWaits(p)
  \/ hostLoop[p].pc = "opening" /\ chan[hostLoop[p].conn].state = "opening"

\* the thread of port pair q can take its next step
CanStep(q) ==
  /\ hostLoop[q].pc = "start" => ENABLED HostSpawn(q)
  /\ hostLoop[q].pc = "bind" => ENABLED HostBind(q)
  /\ (hostLoop[q].pc = "accept" /\ ClientWaits(q)) => ENABLED HostAccept(q)
  /\ (hostLoop[q].pc = "open" /\ ~torn) => ENABLED HostOpenConnection(q)
  /\ (hostLoop[q].pc = "opening" /\ chan[hostLoop[q].conn].state = "open") =>
        ENABLED HostLaunch(q)

\* C17: for the configured port pairs host_impl starts one thread for each
\* pair and each thread binds one listener, on its pair's host port; a
\* thread blocked in Accept or in OpenConnection does not keep the thread of
\* another pair from accepting a client and pairing it.
C17_ListenerPerPair ==
  /\ [](\A p \in DOMAIN ports :
          /\ hostLoop[p].threads <= 1 /\ hostLoop[p].servers <= 1
          /\ (Alive("host") /\ hostLoop[p].pc # "off") => hostLoop[p].threads = 1
          /\ hostLoop[p].pc \in {"accept", "open", "opening"} => hostLoop[p].servers = 1
          /\ AcceptedOn(p) # {} => hostLoop[p].servers = 1)
  /\ [][\A p \in DOMAIN ports :
          (hostLoop[p].pc = "start" /\ hostLoop'[p].pc = "bind" /\ p + 1 \in DOMAIN ports)
             => hostLoop'[p + 1].pc = "start" /\ hostLoop'[p + 1].threads = 1]_vars
  /\ [](\A p \in DOMAIN ports, q \in DOMAIN ports :
          (p # q /\ Blocked(p)) => CanStep(q))

C17_Witness ==
  \E p \in DOMAIN ports, q \in DOMAIN ports :
     /\ p # q
     /\ hostLoop[p].pc = "opening" /\ hostLoop[p].conn = 1
     /\ chan[1].state = "opening"
     /\ \A r \in DOMAIN ports : hostLoop[r].servers = 1
     /\ \E x \in pairs :
          x[1] = "host" /\ x[2] = 2 /\ x[3] \in AcceptedOn(q)

---------------------------------------------------------------------------
(* Claims: the setup of the processes *)

\* the setup of the side's process cannot succeed
SetupFails(side) ==
  \/ ~main[side].shm
  \/ side = "guest" /\ ~main[side].root
  \/ side = "host" /\ (main[side].guest_ports = 0 \/ main[side].host_ports = 0)
  \/ side = "host" /\ main[side].guest_ports # main[side].host_ports

\* where main finds the failure out
FailsAt(side) ==
  IF side = "guest" /\ ~main[side].root THEN "assert_correct_user"
  ELSE IF ~main[side].shm THEN "GetInstance"
  ELSE IF main[side].guest_ports = 0 \/ main[side].host_ports = 0 THEN "flags"
  ELSE "ParsePortsList"

\* the side's process bound a listener, or opened or accepted a connection
\* of the channel
Serves(side) ==
  IF side = "host"
  THEN \/ \E p \in DOMAIN hostLoop : hostLoop[p].servers > 0
       \/ \E k \in ConnIds : chan[k].state # "free"
  ELSE \/ guestLoop.pc # "off"
       \/ \E k \in ConnIds : chan[k].state = "open"

\* C18: a process whose setup cannot succeed (no shared segment, on the host
\* an empty port list or lists of different lengths, on the guest a user that
\* is not root) is aborted by the check that finds it out, and has bound no
\* listener and opened or accepted no connection of the channel.
C18_SetupFailure ==
  /\ [](\A side \in Sides :
          SetupFails(side) =>
            /\ ~Serves(side)
            /\ main[side].pc \notin {"host", "guest", "running"}
            /\ side = "host" => hostLoop = <<>> /\ ports = <<>>)
  /\ [][\A side \in Sides :
          ( /\ SetupFails(side)
            /\ main[side].pc = FailsAt(side)
            /\ main'[side] # main[side] ) => main'[side].pc = "aborted"]_vars
  /\ [][\A side \in Sides :
          main[side].pc = "aborted" => main'[side] = main[side]]_vars

C18_Witness ==
  /\ main["host"].pc = "aborted"
  /\ main["host"].shm
  /\ main["host"].guest_ports > 0 /\ main["host"].host_ports > main["host"].guest_ports
  /\ main["guest"].pc = "running"
  /\ guestLoop.pc = "accept"

\* the side's process called OpenConnection or AcceptConnection
CalledChannel(side) ==
  IF side = "host" THEN \E k \in ConnIds : chan[k].state # "free"
  ELSE guestLoop.pc # "off"

\* C19: a process calls CleanUpPreviousConnections once, and the call has
\* returned when the process calls StartWorker and when it calls
\* OpenConnection or AcceptConnection.
C19_CleanUpFirst ==
  /\ [](\A side \in Sides :
          /\ main[side].cleanups <= 1
          /\ main[side].workers <= main[side].cleanups
          /\ main[side].pc \in {"StartWorker", "flags", "ParsePortsList", "host", "guest", "running"}
               => main[side].cleanups = 1
          /\ CalledChannel(side) => main[side].cleanups = 1 /\ main[side].workers = 1)
  /\ [][\A side \in Sides :
          main'[side].workers > main[side].workers => main[side].cleanups = 1]_vars

C19_Witness ==
  /\ \A side \in Sides : main[side].cleanups = 1 /\ main[side].workers = 1
  /\ \E x \in pairs, y \in pairs : x[1] = "host" /\ y[1] = "guest" /\ x[2] = y[2]

---------------------------------------------------------------------------
(* Claims: the serialized table *)

\* region i names a manager whose index is the value kept for "no manager"
ManagerAtSentinel(i) ==
  /\ regions_[i].managed_by # NULL
  /\ region_idx_by_name_[regions_[i].managed_by] = VSOC_REGION_WHOLE

\* C20: WriteLayout ends in the fatal error exactly when some region's manager
\* has the index VSOC_REGION_WHOLE; in a table it finished, the managed_by of
\* a description is VSOC_REGION_WHOLE exactly when the region declared no
\* manager, and is otherwise the index of the region that has the name the
\* region gave as its manager.
C20_SentinelReserved ==
  call.op = "WriteLayout" =>
    /\ call.ret = "fatal" <=> \E i \in DOMAIN regions_ : ManagerAtSentinel(i)
    /\ call.ret = "fatal" <=> phase = "fatal"
    /\ call.ret = "void" =>
         /\ DOMAIN shared_memory = DOMAIN regions_
         /\ \A i \in DOMAIN regions_ :
              /\ shared_memory[i].device_name = NameAt(regions_[i].region_name)
              /\ shared_memory[i].managed_by = VSOC_REGION_WHOLE
                   <=> regions_[i].managed_by = NULL
              /\ regions_[i].managed_by # NULL =>
                   /\ shared_memory[i].managed_by \in DOMAIN regions_
                   /\ regions_[shared_memory[i].managed_by].region_name
                        = regions_[i].managed_by

C20_Witness ==
  /\ call.op = "WriteLayout" /\ call.ret = "void"
  /\ \E i \in DOMAIN regions_, j \in DOMAIN regions_ :
       /\ regions_[i].managed_by # NULL
       /\ regions_[j].managed_by = NULL
       /\ shared_memory[i].managed_by # VSOC_REGION_WHOLE
       /\ shared_memory[j].managed_by = VSOC_REGION_WHOLE

\* WriteLayout has written the shared memory to the end
Serialized == header # NoHeader /\ phase # "fatal"

\* C21: once WriteLayout has written the layout to the shared memory no
\* operation changes a region's begin_offset or region_size or the device
\* size: the header and the descriptions in the shared memory agree with the
\* layout in memory ever after.
C21_Immutable ==
  /\ [](Serialized => SameAsWritten)
  /\ [][Serialized =>
         /\ device_size_' = device_size_
         /\ \A i \in DOMAIN regions_ :
              /\ regions_'[i].begin_offset = regions_[i].begin_offset
              /\ regions_'[i].size = regions_[i].size]_vars

\* WriteLayout has just returned
Written == call.op = "WriteLayout" /\ call.ret = "void"

\* C22: the header and the descriptions WriteLayout writes describe the layout
\* exactly: header.size is device_size, header.region_count the number of
\* regions, the table starts right after the header, description i has
\* region_begin_offset = begin_offset[i] and region_end_offset =
\* begin_offset[i] + region_size[i]; so the end of description i is the begin
\* of description i + 1 and the last end is at most header.size.
C22_TableDescribesLayout ==
  Written =>
    /\ header.size = device_size_
    /\ header.region_count = NumRegions(regions_)
    /\ header.vsoc_region_desc_offset = SizeofLayoutDescriptor
    /\ DOMAIN shared_memory = DOMAIN regions_
    /\ \A i \in DOMAIN regions_ :
         /\ shared_memory[i].region_begin_offset = regions_[i].begin_offset
         /\ shared_memory[i].region_end_offset = RegionEnd(i)
         /\ i < LastIndex =>
              shared_memory[i].region_end_offset
                = shared_memory[i + 1].region_begin_offset
    /\ shared_memory[LastIndex].region_end_offset <= header.size

SameName(regions, i, j) ==
  NameAt(regions[i].region_name) = NameAt(regions[j].region_name)

\* C24: the constructor ends in the fatal error whenever two regions of the
\* list have the same name, and in a constructed layout the name-to-index
\* map is a bijection between the names of the regions and their positions.
C24_UniqueNames ==
  /\ (phase # "unconstructed" /\
        \E i \in DOMAIN decl, j \in DOMAIN decl : i # j /\ SameName(decl, i, j))
       => built[1].outcome = "fatal"
  /\ Ready =>
       /\ \A i \in DOMAIN regions_, j \in DOMAIN regions_ :
            SameName(regions_, i, j) => i = j
       /\ DOMAIN region_idx_by_name_ = { regions_[i].region_name : i \in DOMAIN regions_ }
       /\ \A i \in DOMAIN regions_ : region_idx_by_name_[regions_[i].region_name] = i

\* thread t leaves SendAll in this step and goes on to receive the next packet
NextPacketAfterSendAll(t) ==
  /\ tasks[t].kind = "ShmToSocket"
  /\ tasks[t].pc = "sendall"
  /\ tasks'[t].pc = "recv"

\* the bytes of its packet that thread t has put on its socket once this step
\* is taken
WrittenAfter(t) ==
  tasks[t].written
    + Len(sockets'[tasks[t].sock].out) - Len(sockets[tasks[t].sock].out)

\* C25: ShmToSocket writes the whole payload of a received packet or stops:
\* it never goes on to receive the next packet after it wrote only a part,
\* or nothing, of a non-empty payload.
C25_WholePayloadOrStop ==
  [][\A t \in DOMAIN tasks :
       NextPacketAfterSendAll(t)
         => WrittenAfter(t) = payload_length(tasks[t].packet)]_vars

\* thread t is at shm_sender.Send(packet)
AtSend(t) == tasks[t].kind = "SocketToShm" /\ tasks[t].pc = "send"

\* the read of thread t failed before the stream was at its end
ReadErrorEnded(t) ==
  /\ tasks[t].kind = "SocketToShm"
  /\ tasks[t].why = "closed"
  /\ sockets[tasks[t].sock].rdpos < stream_len[tasks[t].sock]

\* C26: every packet SocketToShm passes to Sender.Send is a data packet with
\* 1 <= payload_length <= capacity, and so is every data packet it has
\* put on its queue: a read of zero bytes and a read error end the thread
\* before any send.
C26_NoEmptySend ==
  \A t \in DOMAIN tasks :
    /\ AtSend(t) => /\ ~IsEnd(tasks[t].packet)
                    /\ 1 <= payload_length(tasks[t].packet)
                    /\ payload_length(tasks[t].packet) <= PacketCapacity
    /\ tasks[t].kind = "SocketToShm" =>
         \A k \in DOMAIN Queue(t) :
           IsEnd(Queue(t)[k]) \/ (/\ 1 <= payload_length(Queue(t)[k])
                                  /\ payload_length(Queue(t)[k]) <= PacketCapacity)

C26_Witness ==
  \E t \in DOMAIN tasks, u \in DOMAIN tasks :
    /\ AtSend(t)
    /\ ReadErrorEnded(u)
    /\ tasks[u].pc = "done"

\* the constructor has just returned
Constructed == Ready /\ call.op = "construct"

\* C27: in the layout the constructor leaves, the first region begins at
\* align_up(header size + region count * descriptor size, page size), every
\* region_size is align_up(4 * 2^g2h_log + 4 * 2^h2g_log + 8 + payload_size,
\* page size), and every later region begins at the begin_offset plus the
\* region_size of the region before it.
C27_OffsetFormula ==
  Constructed =>
    \A i \in DOMAIN regions_ :
      /\ regions_[i].size = RequiredSize(regions_[i])
      /\ i = 0 => regions_[i].begin_offset =
                    PageCeil(SizeofLayoutDescriptor
                             + NumRegions(regions_) * SizeofDeviceRegion)
      /\ i > 0 => regions_[i].begin_offset = RegionEnd(i - 1)

C27_Witness ==
  /\ Constructed
  /\ NumRegions(regions_) = MaxRegions
  /\ regions_[0].begin_offset > 3 * PageSize
  /\ \E i \in DOMAIN regions_, j \in DOMAIN regions_ :
        regions_[i].size # regions_[j].size

\* the last call was a ResizeRegion that returned true
Resized == call.op = "resize" /\ call.ret = "true"

\* C28: after construction and after any ResizeRegion calls every
\* region_size is at least the region's minimum required size, and a
\* ResizeRegion(name, s) that returns true has set the region's region_size
\* to exactly align_up(s, page size).
C28_SizeAtLeastMinimum ==
  /\ Ready => \A i \in DOMAIN regions_ :
                regions_[i].size >= RequiredSize(regions_[i])
  /\ Resized => regions_[call.index].size = PageCeil(call.req)

\* the threads started for the paired connection pr = <<side, conn, socket>>
WorkersOf(pr) ==
  { t \in DOMAIN tasks : tasks[t].side = pr[1] /\ tasks[t].sock = pr[3] }

\* this step is a call of LaunchWorkers by the accept loop of port p, or by
\* the guest's loop
HostLaunches(p) == hostLoop[p].pc = "opening" /\ hostLoop'[p].pc = "accept"
GuestLaunches == guestLoop.pc = "dial" /\ guestLoop'.pc = "accept"

\* the two threads appended by this step have been started and have not run
JustStarted ==
  /\ Len(tasks') = Len(tasks) + 2
  /\ \A t \in (Len(tasks) + 1) .. (Len(tasks) + 2) :
        tasks'[t].pc = "recv" /\ tasks'[t].why = "running"
  /\ \A t \in DOMAIN tasks : tasks'[t] = tasks[t]

\* a step that calls LaunchWorkers starts the two threads and nothing more
LaunchReturnsAtOnce ==
  /\ \A p \in DOMAIN hostLoop :
       (p \in DOMAIN hostLoop' /\ HostLaunches(p)) => JustStarted
  /\ GuestLaunches => JustStarted

\* C29: every paired connection has exactly two forwarding threads, one
\* SocketToShm holding the connection's Sender and one ShmToSocket holding
\* its Receiver, both on the connection's socket; LaunchWorkers returns
\* without waiting for them: the step that starts them puts the loop back at
\* its accept.
C29_TwoWorkersPerPair ==
  /\ [](/\ \A pr \in pairs :
             /\ Cardinality(WorkersOf(pr)) = 2
             /\ \E t \in WorkersOf(pr), u \in WorkersOf(pr) :
                   /\ Sender(t) /\ Writer(u)
                   /\ tasks[t].conn = pr[2] /\ tasks[u].conn = pr[2]
         /\ \A t \in DOMAIN tasks :
              <<tasks[t].side, tasks[t].conn, tasks[t].sock>> \in pairs)
  /\ [][LaunchReturnsAtOnce]_vars

\* the host has paired two connections and all four threads are still
\* forwarding, bytes of the first having reached the guest's socket
C29_Witness ==
  \E pr1 \in pairs, pr2 \in pairs :
    /\ pr1[1] = "host" /\ pr2[1] = "host" /\ pr1 # pr2
    /\ \A t \in WorkersOf(pr1) \cup WorkersOf(pr2) : ~Exited(t)
    /\ \E d \in SocketIds : sockets[d].out # <<>>

\* SocketToShm thread t had Send return false, or read zero bytes or had its
\* read fail
LoopBroken(t) == Sender(t) /\ tasks[t].why \in {"sendfail", "closed"}

NotEnd(packet) == ~IsEnd(packet)

\* the data packets waiting in a queue
DataPackets(queue) == Len(SelectSeq(queue, NotEnd))

\* thread t neither reads from its socket nor puts a data packet on its
\* queue in this step, and is out of its loop after it
NoReadNoSend(t) ==
  /\ sockets'[tasks[t].sock].rdpos = sockets[tasks[t].sock].rdpos
  /\ DataPackets(Queue(t)') <= DataPackets(Queue(t))
  /\ Exited(t)'
  /\ tasks'[t].why = tasks[t].why

\* C30: after Sender.Send returned false, and after a read of zero bytes or
\* a failed read, SocketToShm reads no more from the socket and calls Send no
\* more: the thread has left its loop and ends.
C30_BreakIsFinal ==
  /\ [](\A t \in DOMAIN tasks : LoopBroken(t) => Exited(t))
  /\ [][\A t \in DOMAIN tasks : LoopBroken(t) => NoReadNoSend(t)]_vars

C30_Witness ==
  \E t \in DOMAIN tasks, u \in DOMAIN tasks :
    /\ Sender(t) /\ tasks[t].why = "sendfail" /\ tasks[t].pc = "done"
    /\ Sender(u) /\ tasks[u].why = "closed" /\ tasks[u].pc = "done"
    /\ sockets[tasks[u].sock].rdpos > 0

---------------------------------------------------------------------------
(* Claims: pairing on the guest, shutdown, sequencing *)

\* the pairs the guest made
GuestPairs == { pr \in pairs : pr[1] = "guest" }

\* connection k was accepted by the guest and its dial is over
AcceptedAndDialed(k) == chan[k].state = "open" /\ guestLoop.conn # k

\* C31: on the guest the socket paired with an accepted connection was
\* dialed to the port the connection reported (conn.first.port()), and every
\* accepted connection is paired with exactly one dialed socket.
C31_DialsReportedPort ==
  /\ \A pr \in GuestPairs :
       /\ sockets[pr[3]].state # "unused"
       /\ sockets[pr[3]].port = chan[pr[2]].port
       /\ \A pr2 \in GuestPairs :
            (pr2[2] = pr[2] \/ pr2[3] = pr[3]) => pr2 = pr
  /\ \A k \in ConnIds :
       AcceptedAndDialed(k) =>
         Cardinality({ pr \in GuestPairs : pr[2] = k }) = 1

C31_Witness ==
  \E pr1 \in GuestPairs, pr2 \in GuestPairs :
    /\ pr1[2] # pr2[2]
    /\ sockets[pr1[3]].port # sockets[pr2[3]].port
    /\ sockets[pr1[3]].port = chan[pr1[2]].port

\* the ShmToSocket thread of the paired connection pr
WriterOf(pr) == CHOOSE t \in WorkersOf(pr) : Writer(t)

\* the ShmToSocket thread t has left its loop and returned
WriterGone(t) == tasks[t].pc = "done" /\ tasks[t].why \in {"end", "werr"}

\* C32: the socket of a paired connection is write-shutdown exactly once,
\* when its ShmToSocket thread exits, after the end packet as after a write
\* error, and never before: not while LaunchWorkers moves the temporary
\* SocketSender into the thread, and not when the SocketToShm thread of the
\* connection exits.
C32_ShutdownOnceAtExit ==
  /\ \A pr \in pairs :
       sockets[pr[3]].shut_wr = (IF WriterGone(WriterOf(pr)) THEN 1 ELSE 0)
  /\ \A s \in SocketIds :
       sockets[s].shut_wr > 0 => \E pr \in pairs : pr[3] = s

C32_Witness ==
  \E pr1 \in pairs, pr2 \in pairs, pr3 \in pairs :
    /\ tasks[WriterOf(pr1)].why = "end" /\ sockets[pr1[3]].shut_wr = 1
    /\ tasks[WriterOf(pr2)].why = "werr" /\ sockets[pr2[3]].shut_wr = 1
    /\ \E t \in WorkersOf(pr3) : Sender(t) /\ tasks[t].pc = "done"
    /\ sockets[pr3[3]].shut_wr = 0

\* the connections AcceptConnection has returned to the guest
AcceptedByGuest == { k \in ConnIds : chan[k].state = "open" }

HostPairs == { pr \in pairs : pr[1] = "host" }

\* the loop of port pair p holds a client that it has not paired yet
Pairing(p) == hostLoop[p].pc \in {"open", "opening"}

\* while the guest is between AcceptConnection and LaunchWorkers it accepts
\* nothing, and pairs at most the connection it holds
GuestSequential ==
  Dialing =>
    /\ AcceptedByGuest' = AcceptedByGuest
    /\ GuestPairs' \subseteq
         GuestPairs \cup { <<"guest", guestLoop.conn, s>> : s \in GuestSockets }
    /\ GuestPairs' # GuestPairs => guestLoop'.pc = "accept"

\* while the loop of a host port is between Accept and LaunchWorkers it
\* accepts no client, and pairs at most the client it holds
HostSequential ==
  \A p \in DOMAIN ports :
    (p \in DOMAIN hostLoop /\ Pairing(p)) =>
      /\ AcceptedOn(p)' = AcceptedOn(p)
      /\ \A pr \in HostPairs' \ HostPairs :
           pr[3] \in AcceptedOn(p) =>
             /\ pr = <<"host", hostLoop[p].conn, hostLoop[p].client_socket>>
             /\ hostLoop[p].pc = "opening"

\* C33: pairing is sequential inside each accept loop.  The guest calls
\* AcceptConnection again only when the dial for the connection before has
\* succeeded and its workers are launched; the loop of a host port accepts
\* the next client only when OpenConnection for the client before has
\* returned; while a dial fails or an open is unanswered the loop pairs no
\* other connection.
C33_SequentialPairing ==
  /\ [][GuestSequential /\ HostSequential]_vars
  /\ [](guestLoop.pc = "accept" =>
          \A k \in AcceptedByGuest : \E pr \in GuestPairs : pr[2] = k)
  /\ [](\A p \in DOMAIN hostLoop :
          (Alive("host") /\ hostLoop[p].pc = "accept") =>
             \A s \in AcceptedOn(p) : \E pr \in HostPairs : pr[3] = s)

\* the guest's dial for its first connection is failing while the host's
\* open of a second connection waits to be accepted
C33_Witness ==
  /\ guestLoop.pc = "sleep" /\ ~guestLoop.reachable
  /\ \E p \in DOMAIN hostLoop :
       /\ hostLoop[p].pc = "opening"
       /\ chan[hostLoop[p].conn].state = "opening"
       /\ hostLoop[p].conn # guestLoop.conn
  /\ GuestPairs = {}

---------------------------------------------------------------------------
(* Claims: the arithmetic of the layout planner *)

\* the value UpdateRegionOffsetsAndDeviceSize passed to AlignToPowerOf2: the
\* end offset of the last region, as a uint32_t
AlignedOffset == ToUint32(RegionEnd(LastIndex))

\* C34: AlignToPowerOf2 returns for every 32-bit unsigned input, those above
\* 2^31 included, and what it returns is the smallest power of two that is
\* >= the input (1 for the input 0).
C34_AlignTerminates ==
  /\ phase # "noreturn"
  /\ Ready =>
       /\ IsPowerOf2(device_size_)
       /\ device_size_ >= AlignedOffset
       /\ \A e \in 0 .. (UintBits + 1) :
            2 ^ e >= AlignedOffset => device_size_ <= 2 ^ e

\* C35: whenever ResizeRegion(name, new_min_size) returns true the region's
\* region_size is at least new_min_size, for every request of the size_t
\* range, the alignment being computed in uint32_t.
C35_GrantedAtLeastRequested ==
  Resized => regions_[call.index].size >= call.req

\* every region has the size the constructor gave it
AllAtMinimum ==
  \A i \in DOMAIN regions_ : regions_[i].size = GetMinRegionSize(regions_[i])

\* the regions lie one after the other behind the header and the descriptor
\* table, each with the size it has now, and the device size is the smallest
\* power of two that holds them
LaidOutContiguously ==
  /\ regions_[0].begin_offset =
       PageCeil(SizeofLayoutDescriptor + NumRegions(regions_) * SizeofDeviceRegion)
  /\ \A i \in DOMAIN regions_ : i > 0 => regions_[i].begin_offset = RegionEnd(i - 1)
  /\ IsPowerOf2(device_size_)
  /\ device_size_ >= RegionEnd(LastIndex)
  /\ device_size_ < 2 * RegionEnd(LastIndex)

\* C36: after any ResizeRegion calls that returned true the layout is the
\* one obtained by laying the regions out contiguously with the sizes last
\* set, whatever the order and number of the calls; with every region back
\* at its minimum size it is the layout the constructor made.
C36_ResizeOrderIndependent ==
  Ready =>
    /\ LaidOutContiguously
    /\ AllAtMinimum => /\ regions_ = built[1].regions
                       /\ device_size_ = built[1].device_size

\* the bytes of a signal table of 2^log_size nodes
TableBytes(log_size) == SizeofUint32 * (2 ^ log_size)

\* description i of the table WriteLayout wrote
Desc(i) == shared_memory[i]

\* C37: in every region description WriteRegionDescription writes, for all
\* signal table log sizes, the guest-to-host table starts at region offset 0,
\* each table is followed at once by its interrupt word, the host-to-guest
\* table starts right after the guest-to-host interrupt word, and the
\* host-to-guest interrupt word ends at offset_of_region_data; the fatal
\* check of the offset of the region data never fires.
C37_SignalTablesBeforeData ==
  /\ Ready => \A i \in DOMAIN regions_ : ~MetadataCollides(regions_[i])
  /\ Written =>
       \A i \in DOMAIN shared_memory :
         /\ Desc(i).guest_to_host_signal_table.futex_uaddr_table_offset = 0
         /\ Desc(i).guest_to_host_signal_table.interrupt_signalled_offset
              = TableBytes(regions_[i].g2h_log_size)
         /\ Desc(i).host_to_guest_signal_table.futex_uaddr_table_offset
              = Desc(i).guest_to_host_signal_table.interrupt_signalled_offset
                  + SizeofUint32
         /\ Desc(i).host_to_guest_signal_table.interrupt_signalled_offset
              = Desc(i).host_to_guest_signal_table.futex_uaddr_table_offset
                  + TableBytes(regions_[i].h2g_log_size)
         /\ Desc(i).host_to_guest_signal_table.interrupt_signalled_offset
              + SizeofUint32 = Desc(i).offset_of_region_data

====
